---- MODULE Spec2Model ----
(***************************************************************************)
(* Verification model of the repository scoring pipeline:                  *)
(*   ExperienceAwareEvaluator      (src/experience_evaluator.py)           *)
(*   ExperienceScoringEngine       (src/app.py)                            *)
(*   RealRepositoryAnalyzer facts  (src/real_analyzer.py)                  *)
(*   EvaluationEngine              (src/evaluation_engine.py)              *)
(*                                                                         *)
(* Scores are Python floats built from integers and two-decimal            *)
(* multipliers; the model keeps them exactly as integers in hundredths of  *)
(* a point (Scale = 100), and multipliers as integer percents.             *)
(***************************************************************************)
EXTENDS Integers, Sequences, FiniteSets, TLC

\* ------------------------------------------------------------------------
\* Python values
\* ------------------------------------------------------------------------

\* hundredths of a point per point
Scale == 100

\* {} : the empty dict
EmptyDict == [k \in {} |-> TRUE]

\* d.get(k, default)
Get(d, k, default) == IF k \in DOMAIN d THEN d[k] ELSE default

\* a list value, kept by its length (only len() and truthiness are read)
PyList(n) == [type |-> "list", len |-> n]

\* an int value
PyInt(n) == [type |-> "int", value |-> n]

\* len(x) raises TypeError unless x is a list
LenRaises(x) == x.type # "list"

\* len(x) of a list
PyLen(x) == x.len

Min(a, b) == IF a <= b THEN a ELSE b

Max(a, b) == IF a >= b THEN a ELSE b

\* points granted when a flag is truthy
Pts(flag, n) == IF flag THEN n ELSE 0

\* ------------------------------------------------------------------------
\* ExperienceAwareEvaluator.__init__ : the benchmark table
\* ------------------------------------------------------------------------

\* the seven tiers in the order the table lists them
Tiers == <<"1st_year", "2nd_year", "3rd_year", "4th_year", "fresher",
           "experienced_0_2", "senior">>

TierSet == {Tiers[i] : i \in DOMAIN Tiers}

\* the multipliers with those of experienced_0_2 and senior exchanged
TierMultiplier_senior_swapped(l) ==
  CASE l = "1st_year" -> 100
    [] l = "2nd_year" -> 95
    [] l = "3rd_year" -> 90
    [] l = "4th_year" -> 85
    [] l = "fresher" -> 92
    [] l = "experienced_0_2" -> 75
    [] l = "senior" -> 80

\* the multipliers with 4th_year's 0.85 mistyped as 0.58
TierMultiplier_typo(l) ==
  CASE l = "1st_year" -> 100
    [] l = "2nd_year" -> 95
    [] l = "3rd_year" -> 90
    [] l = "4th_year" -> 58
    [] l = "fresher" -> 92
    [] l = "experienced_0_2" -> 80
    [] l = "senior" -> 75

\* "multiplier" of each tier, a percent (1.0 = 100)
TierMultiplier(l) ==
  CASE l = "1st_year" -> 100
    [] l = "2nd_year" -> 95
    [] l = "3rd_year" -> 90
    [] l = "4th_year" -> 85
    [] l = "fresher" -> 92
    [] l = "experienced_0_2" -> 80
    [] l = "senior" -> 75

\* "expected_score" of each tier
TierExpectedScore(l) ==
  CASE l = "1st_year" -> 60
    [] l = "2nd_year" -> 65
    [] l = "3rd_year" -> 70
    [] l = "4th_year" -> 75
    [] l = "fresher" -> 68
    [] l = "experienced_0_2" -> 78
    [] l = "senior" -> 85

\* "score_range" of each tier
TierScoreRange(l) ==
  CASE l = "1st_year" -> "95-100"
    [] l = "2nd_year" -> "90-95"
    [] l = "3rd_year" -> "80-85"
    [] l = "4th_year" -> "75-80"
    [] l = "fresher" -> "70-75"
    [] l = "experienced_0_2" -> "65-70"
    [] l = "senior" -> "60-65"

\* self.experience_benchmarks as __init__ builds it
Benchmarks ==
  [l \in TierSet |->
     [score_range    |-> TierScoreRange(l),
      expected_score |-> TierExpectedScore(l),
      multiplier     |-> TierMultiplier(l)]]

\* self.experience_benchmarks.get(experience_level, self.experience_benchmarks["fresher"])
ExpConfig(benchmarks, experience_level) ==
  Get(benchmarks, experience_level, benchmarks["fresher"])

\* ------------------------------------------------------------------------
\* Raw technical scorer (points)
\* ------------------------------------------------------------------------

\* len() of an int raises TypeError in the function/class count
code_quality_raises(code_analysis) ==
  LET quality == Get(code_analysis, "code_quality", EmptyDict)
  IN  /\ "python_metrics" \in DOMAIN quality
      /\ LET py_metrics == quality["python_metrics"]
         IN  \/ LenRaises(Get(py_metrics, "functions", PyList(0)))
             \/ LenRaises(Get(py_metrics, "classes", PyList(0)))

\* the tier table tried from its weakest condition up
function_class_points_weakest_first(functions, classes) ==
  IF functions >= 2 THEN 3
  ELSE IF functions >= 5 /\ classes >= 2 THEN 5
  ELSE IF functions >= 10 /\ classes >= 3 THEN 8
  ELSE 0

\* the function/class tier table
function_class_points(functions, classes) ==
  IF functions >= 10 /\ classes >= 3 THEN 8
  ELSE IF functions >= 5 /\ classes >= 2 THEN 5
  ELSE IF functions >= 2 THEN 3
  ELSE 0

calculate_code_quality_score(code_analysis) ==
  LET quality  == Get(code_analysis, "code_quality", EmptyDict)
      overall  == Get(quality, "overall", EmptyDict)
      patterns == Get(code_analysis, "code_patterns_found", EmptyDict)
      pyScore  ==
        IF "python_metrics" \in DOMAIN quality
        THEN LET py_metrics == quality["python_metrics"]
                 functions  == PyLen(Get(py_metrics, "functions", PyList(0)))
                 classes    == PyLen(Get(py_metrics, "classes", PyList(0)))
             IN  function_class_points(functions, classes)
                 + Pts(Get(py_metrics, "has_type_hints", FALSE), 2)
                 + Pts(Get(py_metrics, "has_docstrings", FALSE), 2)
                 + Pts(Get(py_metrics, "has_decorators", FALSE), 1)
        ELSE 0
      score == pyScore
               + Pts(Get(overall, "has_error_handling", FALSE), 4)
               + Pts(Get(overall, "has_logging", FALSE), 2)
               + Pts(Get(overall, "has_comments", FALSE), 1)
               + Pts(Get(patterns, "error_handling", 0) > 0, 3)
               + Pts(Get(patterns, "logging", 0) > 0, 2)
  IN  Min(score, 25)

\* all(f['size_kb'] < 100 for f in largest_files[:3])
AllSmall(largest_files) ==
  \A i \in 1..Min(Len(largest_files), 3) : largest_files[i] < 100

calculate_architecture_score(code_analysis) ==
  LET structure == Get(code_analysis, "structure", EmptyDict)
      key_dirs  == Get(structure, "key_directories", EmptyDict)
      files     == Get(code_analysis, "files", EmptyDict)
      code_files == Get(files, "code_file_details", 0)
      largest_files == Get(files, "largest_files", <<>>)
      patterns  == Get(structure, "architecture_patterns", 0)
      dirScore  ==
          Pts(Get(key_dirs, "src", FALSE) \/ Get(key_dirs, "app", FALSE), 4)
        + Pts(Get(key_dirs, "tests", FALSE) \/ Get(key_dirs, "test", FALSE), 2)
        + Pts(Get(key_dirs, "config", FALSE) \/ Get(key_dirs, "configuration", FALSE), 1)
        + Pts(Get(key_dirs, "docs", FALSE) \/ Get(key_dirs, "documentation", FALSE), 1)
      fileScore ==
        IF code_files > 0
        THEN (IF code_files >= 10 THEN 4
              ELSE IF code_files >= 5 THEN 2
              ELSE IF code_files >= 2 THEN 1
              ELSE 0)
             + Pts(Len(largest_files) > 0 /\ AllSmall(largest_files), 2)
        ELSE 0
      patScore == IF patterns > 0 THEN Min(patterns * 2, 6) ELSE 0
  IN  Min(dirScore + fileScore + patScore, 20)

\* the documentation scorer without its final min(score, 15)
calculate_documentation_score_uncapped(code_analysis) ==
  LET docs   == Get(code_analysis, "documentation", EmptyDict)
      readme == Get(docs, "readme", EmptyDict)
      sections == Get(readme, "sections", EmptyDict)
  IN  (IF Get(readme, "exists", FALSE)
       THEN 3 + Min(Get(readme, "quality_score", 0), 5)
              + Pts(Get(sections, "installation", FALSE), 1)
              + Pts(Get(sections, "usage", FALSE), 1)
       ELSE 0)
      + Pts(Get(Get(docs, "api_docs", EmptyDict), "exists", FALSE), 2)
      + Pts(Get(Get(docs, "architecture_docs", EmptyDict), "exists", FALSE), 2)
      + Pts(Get(Get(docs, "examples", EmptyDict), "exists", FALSE), 3)

calculate_documentation_score(code_analysis) ==
  LET docs   == Get(code_analysis, "documentation", EmptyDict)
      readme == Get(docs, "readme", EmptyDict)
      sections == Get(readme, "sections", EmptyDict)
      readmeScore ==
        IF Get(readme, "exists", FALSE)
        THEN 3 + Min(Get(readme, "quality_score", 0), 5)
               + Pts(Get(sections, "installation", FALSE), 1)
               + Pts(Get(sections, "usage", FALSE), 1)
        ELSE 0
      score == readmeScore
               + Pts(Get(Get(docs, "api_docs", EmptyDict), "exists", FALSE), 2)
               + Pts(Get(Get(docs, "architecture_docs", EmptyDict), "exists", FALSE), 2)
               + Pts(Get(Get(docs, "examples", EmptyDict), "exists", FALSE), 3)
  IN  Min(score, 15)

calculate_testing_score(code_analysis) ==
  LET testing == Get(code_analysis, "testing", EmptyDict)
      test_files == Get(testing, "test_files", 0)
      frameworks == Get(testing, "test_frameworks", 0)
      patterns == Get(Get(code_analysis, "code_patterns_found", EmptyDict), "testing", 0)
      presence ==
        IF Get(testing, "has_tests", FALSE)
        THEN 3 + (IF test_files >= 5 THEN 2 ELSE IF test_files >= 2 THEN 1 ELSE 0)
        ELSE 0
      score == presence
               + Min(frameworks * 2, 4)
               + Pts(Get(testing, "test_directory_structure", FALSE), 2)
               + Pts(Get(testing, "coverage", FALSE), 2)
               + (IF patterns > 0 THEN Min(patterns * 2, 2) ELSE 0)
  IN  Min(score, 15)

calculate_production_score(code_analysis) ==
  LET docker == Get(code_analysis, "docker", EmptyDict)
      analysis == Get(docker, "dockerfile_analysis", EmptyDict)
      ci_cd  == Get(code_analysis, "ci_cd", EmptyDict)
      key_files == Get(code_analysis, "key_files_content", EmptyDict)
      config_files == Get(key_files, "config_files", {})
      dockerScore ==
        IF Get(docker, "has_dockerfile", FALSE)
        THEN 3 + Pts(Get(analysis, "multi_stage", FALSE), 1)
               + Pts(Get(analysis, "has_healthcheck", FALSE), 1)
               + Pts(Get(analysis, "has_optimizations", FALSE), 1)
        ELSE 0
      ciScore ==
        IF Get(ci_cd, "has_ci", FALSE)
        THEN 2 + Pts(Get(ci_cd, "ci_files", 0) >= 2, 1)
               + Pts(Get(ci_cd, "ci_platforms", 0) >= 2, 1)
        ELSE 0
      score == dockerScore
               + Pts(Get(docker, "has_docker_compose", FALSE), 1)
               + ciScore
               + Pts(config_files # {}, 2)
               + Pts(Get(key_files, "requirements", "") # "", 2)
               + Pts(Get(key_files, ".env", "") # "" \/ ".env" \in config_files, 1)
  IN  Min(score, 15)

calculate_challenge_score(code_analysis, challenge_id) ==
  LET challenge_specific == Get(code_analysis, "challenge_specific", EmptyDict)
      ai_ml == Get(challenge_specific, "ai_ml_indicators", EmptyDict)
      web   == Get(challenge_specific, "web_app_indicators", EmptyDict)
      data  == Get(challenge_specific, "data_pipeline_indicators", EmptyDict)
      has_ai_ml == Get(ai_ml, "has_ai_ml", FALSE)
      has_web_app == Get(web, "has_web_app", FALSE)
      score ==
        IF challenge_id = "challenge_023"
        THEN (IF has_ai_ml THEN 4 + Min(Get(ai_ml, "libraries", 0), 3) ELSE 0)
             + Pts(Get(ai_ml, "model_files", 0) > 0, 2)
             + Pts(Get(ai_ml, "notebooks", 0) > 0, 1)
        ELSE IF challenge_id = "challenge_024"
        THEN Pts(has_ai_ml, 3) + Pts(has_web_app, 3) + Pts(has_ai_ml /\ has_web_app, 4)
        ELSE IF challenge_id = "challenge_025"
        THEN (IF Get(data, "has_data_pipeline", FALSE)
              THEN 6 + Min(Get(data, "etl_files", 0), 4) ELSE 0)
        ELSE IF challenge_id \in {"challenge_026", "challenge_027"}
        THEN (IF has_web_app
              THEN 5 + Min(Get(web, "frameworks", 0), 3)
                     + Pts(Get(web, "static_files", 0) > 0 /\ Get(web, "templates", 0) > 0, 2)
              ELSE 0)
        ELSE 0
  IN  Min(score, 10)

\* the six capped sub-scores
category_scores(code_analysis, challenge_id) ==
  [code_quality       |-> Min(calculate_code_quality_score(code_analysis), 25),
   architecture       |-> Min(calculate_architecture_score(code_analysis), 20),
   documentation      |-> Min(calculate_documentation_score(code_analysis), 15),
   testing            |-> Min(calculate_testing_score(code_analysis), 15),
   production         |-> Min(calculate_production_score(code_analysis), 15),
   challenge_specific |-> Min(calculate_challenge_score(code_analysis, challenge_id), 10)]

\* the total taken over the five general categories only
calculate_raw_technical_score_general_only(code_analysis, challenge_id) ==
  LET c == category_scores(code_analysis, challenge_id)
      total_score == c.code_quality + c.architecture + c.documentation
                     + c.testing + c.production
  IN  Min(total_score, 100)

calculate_raw_technical_score(code_analysis, challenge_id) ==
  LET c == category_scores(code_analysis, challenge_id)
      total_score == c.code_quality + c.architecture + c.documentation
                     + c.testing + c.production + c.challenge_specific
  IN  Min(total_score, 100)

\* ------------------------------------------------------------------------
\* Experience adjustment engine
\* ------------------------------------------------------------------------

Senior == {"senior", "experienced_0_2"}

Intermediate == {"3rd_year", "4th_year"}

\* has_tests read with default True
HasTests_default_true(code_analysis) ==
  Get(Get(code_analysis, "testing", EmptyDict), "has_tests", TRUE)

HasTests(code_analysis) ==
  Get(Get(code_analysis, "testing", EmptyDict), "has_tests", FALSE)

HasDockerfile(code_analysis) ==
  Get(Get(code_analysis, "docker", EmptyDict), "has_dockerfile", FALSE)

HasCi(code_analysis) ==
  Get(Get(code_analysis, "ci_cd", EmptyDict), "has_ci", FALSE)

Readme(code_analysis) ==
  Get(Get(code_analysis, "documentation", EmptyDict), "readme", EmptyDict)

ReadmeQuality(code_analysis) == Get(Readme(code_analysis), "quality_score", 0)

ReadmeExists(code_analysis) == Get(Readme(code_analysis), "exists", FALSE)

HasAiMl(code_analysis) ==
  Get(Get(Get(code_analysis, "challenge_specific", EmptyDict),
          "ai_ml_indicators", EmptyDict), "has_ai_ml", FALSE)

\* the challenge penalties without the tier scaling
calculate_challenge_penalties_unscaled(code_analysis, challenge_id, experience_level) ==
  IF challenge_id \in {"challenge_023", "challenge_024"} /\ ~HasAiMl(code_analysis)
  THEN 10
  ELSE 0

calculate_challenge_penalties(code_analysis, challenge_id, experience_level) ==
  IF challenge_id = "challenge_023"
  THEN IF ~HasAiMl(code_analysis)
       THEN (IF experience_level \in Senior THEN 10
             ELSE IF experience_level \in Intermediate THEN 7
             ELSE 3)
       ELSE 0
  ELSE IF challenge_id = "challenge_024"
  THEN IF ~HasAiMl(code_analysis)
       THEN (IF experience_level \in Senior THEN 8
             ELSE IF experience_level \in Intermediate THEN 5
             ELSE 0)
       ELSE 0
  ELSE 0

\* the penalties charged for the features a repository has instead of the
\* ones it lacks
calculate_penalties_for_present(code_analysis, experience_level, challenge_id) ==
  (IF experience_level \in Senior
   THEN Pts(HasDockerfile(code_analysis), 5)
        + Pts(HasTests(code_analysis), 8)
        + Pts(HasCi(code_analysis), 3)
        + Pts(ReadmeQuality(code_analysis) < 7, 4)
   ELSE IF experience_level \in Intermediate
   THEN Pts(HasTests(code_analysis), 5)
        + Pts(HasDockerfile(code_analysis), 3)
        + Pts(ReadmeQuality(code_analysis) < 5, 3)
   ELSE IF experience_level \in {"1st_year", "2nd_year"}
   THEN Pts(~ReadmeExists(code_analysis), 2)
   ELSE 0)
  + calculate_challenge_penalties(code_analysis, challenge_id, experience_level)

calculate_penalties(code_analysis, experience_level, challenge_id) ==
  (IF experience_level \in Senior
   THEN Pts(~HasDockerfile(code_analysis), 5)
        + Pts(~HasTests(code_analysis), 8)
        + Pts(~HasCi(code_analysis), 3)
        + Pts(ReadmeQuality(code_analysis) < 7, 4)
   ELSE IF experience_level \in Intermediate
   THEN Pts(~HasTests(code_analysis), 5)
        + Pts(~HasDockerfile(code_analysis), 3)
        + Pts(ReadmeQuality(code_analysis) < 5, 3)
   ELSE IF experience_level \in {"1st_year", "2nd_year"}
   THEN Pts(~ReadmeExists(code_analysis), 2)
   ELSE 0)
  + calculate_challenge_penalties(code_analysis, challenge_id, experience_level)

calculate_rewards(code_analysis, experience_level, challenge_id) ==
  LET key_dirs == Get(Get(code_analysis, "structure", EmptyDict),
                      "key_directories", EmptyDict)
  IN  (IF experience_level \in {"1st_year", "2nd_year", "fresher"}
       THEN Pts(HasTests(code_analysis), 3)
            + Pts(HasDockerfile(code_analysis), 2)
            + Pts(HasCi(code_analysis), 2)
       ELSE 0)
      + Pts(ReadmeQuality(code_analysis) >= 8, 2)
      + (IF experience_level \in {"3rd_year", "4th_year", "experienced_0_2"}
         THEN Pts(Get(key_dirs, "tests", FALSE) /\ Get(key_dirs, "src", FALSE), 2)
         ELSE 0)

\* the clamp without its upper bound
Clamp_no_upper(adjusted) == Max(0, adjusted)

\* max(0, min(adjusted, 100)), in hundredths
Clamp(adjusted) == Max(0, Min(adjusted, 100 * Scale))

\* the adjustment with the penalty step appended whether or not there are
\* penalties
apply_experience_adjustments_step_always(raw_score, exp_config, experience_level, code_analysis, challenge_id) ==
  LET penalties == calculate_penalties(code_analysis, experience_level, challenge_id)
      rewards   == calculate_rewards(code_analysis, experience_level, challenge_id)
      adjusted  == raw_score * exp_config.multiplier - penalties * Scale + rewards * Scale
      details2  == <<[step |-> "Experience Multiplier", value |-> exp_config.multiplier],
                     [step |-> "Experience Penalties", value |-> 0 - penalties]>>
  IN  [raw_score          |-> raw_score,
       multiplier_applied |-> exp_config.multiplier,
       penalties          |-> penalties,
       rewards            |-> rewards,
       adjustment_details |-> IF rewards > 0
                              THEN Append(details2, [step |-> "Experience Rewards",
                                                     value |-> rewards])
                              ELSE details2,
       final_score        |-> Max(0, Min(adjusted, 100 * Scale))]

\* the adjustment with the rewards recorded but never added to the score
apply_experience_adjustments_rewards_dropped(raw_score, exp_config, experience_level, code_analysis, challenge_id) ==
  LET penalties == calculate_penalties(code_analysis, experience_level, challenge_id)
      rewards   == calculate_rewards(code_analysis, experience_level, challenge_id)
      adjusted  == raw_score * exp_config.multiplier - penalties * Scale
  IN  [raw_score          |-> raw_score,
       multiplier_applied |-> exp_config.multiplier,
       penalties          |-> penalties,
       rewards            |-> rewards,
       adjustment_details |-> <<>>,
       final_score        |-> Max(0, Min(adjusted, 100 * Scale))]

\* returns the breakdown; breakdown.final_score is the adjusted score.
\* raw_score, penalties, rewards are points, multiplier_applied a percent,
\* final_score hundredths of a point.
apply_experience_adjustments(raw_score, exp_config, experience_level, code_analysis, challenge_id) ==
  LET multiplier == exp_config.multiplier
      \* Step 1: multiplier
      adjusted1  == raw_score * multiplier
      details1   == <<[step |-> "Experience Multiplier", value |-> multiplier]>>
      \* Step 2: penalties
      penalties  == calculate_penalties(code_analysis, experience_level, challenge_id)
      adjusted2  == adjusted1 - penalties * Scale
      details2   == IF penalties > 0
                    THEN Append(details1, [step |-> "Experience Penalties",
                                           value |-> 0 - penalties])
                    ELSE details1
      \* Step 3: rewards
      rewards    == calculate_rewards(code_analysis, experience_level, challenge_id)
      adjusted3  == adjusted2 + rewards * Scale
      details3   == IF rewards > 0
                    THEN Append(details2, [step |-> "Experience Rewards",
                                           value |-> rewards])
                    ELSE details2
  IN  [raw_score          |-> raw_score,
       multiplier_applied |-> multiplier,
       penalties          |-> penalties,
       rewards            |-> rewards,
       adjustment_details |-> details3,
       \* Step 4: bounds
       final_score        |-> Clamp(adjusted3)]

\* one set of offsets for every tier
DecisionOffsets_same_for_all(experience_level) == <<10, 0, -10>>

\* offsets (Strong Hire, Hire, Borderline) over the expected score
DecisionOffsets(experience_level) ==
  IF experience_level \in Senior THEN <<10, 0, -10>>
  ELSE IF experience_level \in Intermediate THEN <<15, 5, -5>>
  ELSE <<20, 10, 0>>

\* adjusted_score in hundredths
determine_hiring_decision(benchmarks, adjusted_score, experience_level) ==
  LET expected_score == ExpConfig(benchmarks, experience_level).expected_score
      o == DecisionOffsets(experience_level)
  IN  IF adjusted_score >= (expected_score + o[1]) * Scale THEN "Strong Hire"
      ELSE IF adjusted_score >= (expected_score + o[2]) * Scale THEN "Hire"
      ELSE IF adjusted_score >= (expected_score + o[3]) * Scale THEN "Borderline"
      ELSE "Reject"

\* score in hundredths
get_recommendation(benchmarks, score, experience_level) ==
  LET expected == ExpConfig(benchmarks, experience_level).expected_score
  IN  IF score >= (expected + 15) * Scale THEN "Exceptional candidate - Strongly recommend hiring"
      ELSE IF score >= (expected + 5) * Scale THEN "Good candidate - Recommend hiring"
      ELSE IF score >= expected * Scale THEN "Average candidate - Consider for appropriate role"
      ELSE IF score >= (expected - 10) * Scale
           THEN "Below average - Consider for junior position or internship"
      ELSE "Not suitable - Needs significant improvement"

\* round(x, 1) of a float whose exact value is x hundredths: the nearest
\* tenth; when x lies halfway the binary double decides, so either neighbour
\* can come out
Round1Choices(x) ==
  LET r  == x % 10
      lo == x - r
  IN  IF r < 5 THEN {lo} ELSE IF r > 5 THEN {lo + 10} ELSE {lo, lo + 10}

\* ------------------------------------------------------------------------
\* ExperienceScoringEngine (app.py)
\* ------------------------------------------------------------------------

\* self.experience_multipliers, percents
experience_multipliers ==
  [l \in TierSet |->
     CASE l = "1st_year" -> 100
       [] l = "2nd_year" -> 95
       [] l = "3rd_year" -> 90
       [] l = "4th_year" -> 85
       [] l = "fresher" -> 92
       [] l = "experienced_0_2" -> 80
       [] l = "senior" -> 75]

\* self.industry_benchmarks
industry_benchmarks ==
  [l \in TierSet |->
     CASE l = "1st_year" -> 60
       [] l = "2nd_year" -> 65
       [] l = "3rd_year" -> 70
       [] l = "4th_year" -> 75
       [] l = "fresher" -> 68
       [] l = "experienced_0_2" -> 78
       [] l = "senior" -> 85]

app_calculate_challenge_penalties(code_analysis, challenge_id, experience_level) ==
  IF challenge_id = "challenge_023"
  THEN IF ~HasAiMl(code_analysis)
       THEN (IF experience_level \in Senior THEN 10
             ELSE IF experience_level \in Intermediate THEN 7
             ELSE 3)
       ELSE 0
  ELSE IF challenge_id = "challenge_024"
  THEN IF ~HasAiMl(code_analysis)
       THEN (IF experience_level \in Senior THEN 8
             ELSE IF experience_level \in Intermediate THEN 5
             ELSE 0)
       ELSE 0
  ELSE 0

app_calculate_penalties(code_analysis, experience_level, challenge_id) ==
  (IF experience_level \in Senior
   THEN Pts(~HasDockerfile(code_analysis), 5)
        + Pts(~HasTests(code_analysis), 8)
        + Pts(~HasCi(code_analysis), 3)
        + Pts(ReadmeQuality(code_analysis) < 7, 4)
   ELSE IF experience_level \in Intermediate
   THEN Pts(~HasTests(code_analysis), 5)
        + Pts(~HasDockerfile(code_analysis), 3)
        + Pts(ReadmeQuality(code_analysis) < 5, 3)
   ELSE IF experience_level \in {"1st_year", "2nd_year", "fresher"}
   THEN Pts(~ReadmeExists(code_analysis), 2)
   ELSE 0)
  + app_calculate_challenge_penalties(code_analysis, challenge_id, experience_level)

app_calculate_rewards(code_analysis, experience_level, challenge_id) ==
  (IF experience_level \in {"1st_year", "2nd_year"}
   THEN Pts(HasTests(code_analysis), 3)
        + Pts(HasDockerfile(code_analysis), 2)
        + Pts(HasCi(code_analysis), 2)
   ELSE 0)
  + Pts(ReadmeQuality(code_analysis) >= 8, 2)

\* max(0, min(100, adjusted)), in hundredths
AppClamp(adjusted) == Max(0, Min(100 * Scale, adjusted))

\* the returned dict without its texts; raw_score, penalties, rewards are
\* points, multiplier_applied a percent, final_score hundredths
adjust_score(raw_score, experience_level, code_analysis, challenge_id) ==
  LET multiplier == Get(experience_multipliers, experience_level, 85)
      industry_benchmark == Get(industry_benchmarks, experience_level, 70)
      penalties == app_calculate_penalties(code_analysis, experience_level, challenge_id)
      rewards == app_calculate_rewards(code_analysis, experience_level, challenge_id)
      adjusted_score == raw_score * multiplier
  IN  [raw_score          |-> raw_score,
       final_score        |-> AppClamp(adjusted_score - penalties * Scale + rewards * Scale),
       industry_benchmark |-> industry_benchmark,
       experience_level   |-> experience_level,
       multiplier_applied |-> multiplier,
       penalties_applied  |-> penalties,
       rewards_applied    |-> rewards]

\* ------------------------------------------------------------------------
\* RealRepositoryAnalyzer: the facts record
\* ------------------------------------------------------------------------

\* longest list / largest count in a facts record
MaxItems == 12

\* the score as a plain count of the sections found
readme_quality_score_count(found) ==
  Min(Cardinality(found), 10)

\* README quality score of the deep scanner from the sections found
readme_quality_score(found) ==
  Min(  Pts("installation" \in found, 2) + Pts("usage" \in found, 2)
      + Pts("api" \in found, 1) + Pts("configuration" \in found, 1)
      + Pts("testing" \in found, 1) + Pts("deployment" \in found, 1)
      + Pts("contributing" \in found, 1) + Pts("license" \in found, 1), 10)

ReadmeSections == {"installation", "usage", "api", "configuration", "testing",
                   "deployment", "contributing", "license"}

\* documentation facts for a root README in which the sections `found`
\* are recognized
analyze_documentation_deep(has_readme, found, has_api_docs, has_arch_docs) ==
  [readme |-> IF has_readme
              THEN [exists |-> TRUE,
                    sections |-> [sec \in ReadmeSections |-> sec \in found],
                    quality_score |-> readme_quality_score(found)]
              ELSE [exists |-> FALSE, sections |-> EmptyDict, quality_score |-> 0],
   api_docs |-> [exists |-> has_api_docs],
   architecture_docs |-> [exists |-> has_arch_docs],
   setup_instructions |-> [exists |-> has_readme /\ "installation" \in found],
   examples |-> [exists |-> has_readme /\ "usage" \in found]]

\* the failure record of analyze_deep
ErrorFacts == [error |-> "Deep analysis error"]

DocumentationInputs ==
  { analyze_documentation_deep(FALSE, {}, FALSE, FALSE),
    analyze_documentation_deep(TRUE, {"installation", "usage"}, FALSE, FALSE),
    analyze_documentation_deep(TRUE, {"installation", "usage", "api", "license"},
                               FALSE, FALSE),
    analyze_documentation_deep(TRUE, {"installation", "usage", "api", "testing",
                                      "license"}, TRUE, FALSE),
    analyze_documentation_deep(TRUE, ReadmeSections, TRUE, TRUE) }

\* code_quality: no Python file; Python files scanned (counts are ints);
\* and python_metrics carrying name lists
CodeQualityScanned ==
  { [python_metrics |-> [total_files |-> 2, functions |-> PyInt(0), classes |-> PyInt(0),
                         has_type_hints |-> FALSE, has_docstrings |-> FALSE],
     overall |-> [has_error_handling |-> FALSE, has_logging |-> FALSE,
                  has_comments |-> FALSE]],
    [python_metrics |-> [total_files |-> MaxItems, functions |-> PyInt(MaxItems),
                         classes |-> PyInt(3),
                         has_type_hints |-> TRUE, has_docstrings |-> TRUE],
     overall |-> [has_error_handling |-> TRUE, has_logging |-> TRUE,
                  has_comments |-> TRUE]] }

CodeQualityNoPython ==
  [python_metrics |-> EmptyDict,
   overall |-> [has_error_handling |-> FALSE, has_logging |-> FALSE,
                has_comments |-> FALSE]]

CodeQualityLists ==
  { [python_metrics |-> [functions |-> PyList(2), classes |-> PyList(0),
                         has_type_hints |-> FALSE, has_docstrings |-> TRUE,
                         has_decorators |-> FALSE],
     overall |-> [has_error_handling |-> TRUE, has_logging |-> FALSE,
                  has_comments |-> TRUE]],
    [python_metrics |-> [functions |-> PyList(MaxItems), classes |-> PyList(3),
                         has_type_hints |-> TRUE, has_docstrings |-> TRUE,
                         has_decorators |-> TRUE],
     overall |-> [has_error_handling |-> TRUE, has_logging |-> TRUE,
                  has_comments |-> TRUE]] }

TestingInputs ==
  { [has_tests |-> FALSE, test_files |-> 0, test_frameworks |-> 0,
     coverage |-> FALSE, test_directory_structure |-> FALSE],
    [has_tests |-> TRUE, test_files |-> MaxItems, test_frameworks |-> 2,
     coverage |-> TRUE, test_directory_structure |-> TRUE] }

DockerInputs ==
  { [has_dockerfile |-> FALSE, has_docker_compose |-> FALSE,
     dockerfile_analysis |-> EmptyDict],
    [has_dockerfile |-> TRUE, has_docker_compose |-> TRUE,
     dockerfile_analysis |-> [multi_stage |-> TRUE, has_healthcheck |-> TRUE,
                              has_non_root_user |-> FALSE,
                              has_optimizations |-> TRUE]] }

CiCdInputs ==
  { [has_ci |-> FALSE, ci_files |-> 0, ci_platforms |-> 0],
    [has_ci |-> TRUE, ci_files |-> 2, ci_platforms |-> 2] }

ChallengeSpecificInputs ==
  { [ai_ml_indicators |-> [has_ai_ml |-> FALSE, libraries |-> 0, model_files |-> 0,
                           notebooks |-> 0],
     web_app_indicators |-> [has_web_app |-> FALSE, frameworks |-> 0,
                             static_files |-> 0, templates |-> 0],
     data_pipeline_indicators |-> [has_data_pipeline |-> FALSE, etl_files |-> 0]],
    [ai_ml_indicators |-> [has_ai_ml |-> TRUE, libraries |-> 3, model_files |-> 0,
                           notebooks |-> 0],
     web_app_indicators |-> [has_web_app |-> FALSE, frameworks |-> 0,
                             static_files |-> 0, templates |-> 0],
     data_pipeline_indicators |-> [has_data_pipeline |-> FALSE, etl_files |-> 0]],
    [ai_ml_indicators |-> [has_ai_ml |-> TRUE, libraries |-> 3, model_files |-> 1,
                           notebooks |-> 1],
     web_app_indicators |-> [has_web_app |-> TRUE, frameworks |-> 3,
                             static_files |-> 1, templates |-> 1],
     data_pipeline_indicators |-> [has_data_pipeline |-> TRUE, etl_files |-> 4]] }

\* structure, files, key_files_content and code_patterns_found together: a
\* bare repository as the deep scanner reports it, and a fully laid out one
\* in the shape the scorer reads
LayoutInputs ==
  { [structure |-> [architecture_patterns |-> 0],
     files |-> [largest_files |-> <<>>],
     key_files_content |-> [requirements |-> "", config_files |-> {}],
     code_patterns_found |-> EmptyDict],
    [structure |-> [key_directories |-> [src |-> TRUE, tests |-> TRUE,
                                         config |-> TRUE, docs |-> TRUE],
                    architecture_patterns |-> 3],
     files |-> [code_file_details |-> MaxItems, largest_files |-> <<50, 20>>],
     key_files_content |-> [requirements |-> "flask", config_files |-> {".env"}],
     code_patterns_found |-> [error_handling |-> 1, logging |-> 1, testing |-> 1]] }

MakeFacts(cq, lay, doc, tst, dck, ci, chs) ==
  [code_quality |-> cq, structure |-> lay.structure, files |-> lay.files,
   key_files_content |-> lay.key_files_content,
   code_patterns_found |-> lay.code_patterns_found,
   documentation |-> doc, testing |-> tst, docker |-> dck, ci_cd |-> ci,
   challenge_specific |-> chs]

\* facts the scanner returns for repositories with Python files: its
\* structure carries no key_directories and its files no code_file_details
ScannedFacts ==
  { MakeFacts(cq, lay, doc, tst, dck, ci, chs) :
      cq \in CodeQualityScanned,
      lay \in {l \in LayoutInputs : "key_directories" \notin DOMAIN l.structure},
      doc \in {d \in DocumentationInputs : d.readme.quality_score \in {0, 10}},
      tst \in TestingInputs, dck \in DockerInputs, ci \in CiCdInputs,
      chs \in {c \in ChallengeSpecificInputs : ~c.ai_ml_indicators.has_ai_ml} }

\* python_metrics of Python code without functions or classes, the names
\* given as (empty) lists
CodeQualityNoDefinitions ==
  { [python_metrics |-> [functions |-> PyList(0), classes |-> PyList(0),
                         has_type_hints |-> FALSE, has_docstrings |-> FALSE,
                         has_decorators |-> FALSE],
     overall |-> [has_error_handling |-> flag, has_logging |-> flag,
                  has_comments |-> flag]] : flag \in BOOLEAN }

\* facts of a repository that holds nothing but such Python files
BareFacts ==
  { MakeFacts(cq, lay, doc, tst, dck, ci, chs) :
      cq \in CodeQualityNoDefinitions,
      lay \in {l \in LayoutInputs : "key_directories" \notin DOMAIN l.structure},
      doc \in {d \in DocumentationInputs : ~d.readme.exists},
      tst \in {t \in TestingInputs : ~t.has_tests},
      dck \in {d \in DockerInputs : ~d.has_dockerfile},
      ci \in {c \in CiCdInputs : ~c.has_ci},
      chs \in ChallengeSpecificInputs }

FactsInputs ==
  {ErrorFacts} \cup ScannedFacts \cup BareFacts \cup
  { MakeFacts(cq, lay, doc, tst, dck, ci, chs) :
      cq \in {CodeQualityNoPython} \cup CodeQualityLists,
      lay \in LayoutInputs, doc \in DocumentationInputs,
      tst \in TestingInputs, dck \in DockerInputs, ci \in CiCdInputs,
      chs \in ChallengeSpecificInputs }

\* an experience-level string that names no tier
UnknownLevel == "intern"

ExperienceLevels == TierSet \cup {UnknownLevel}

ChallengeIds == {"challenge_023", "challenge_024", "challenge_025",
                 "challenge_026", "challenge_027", "challenge_999"}

\* ------------------------------------------------------------------------
\* Repository scanners and file classifiers
\* ------------------------------------------------------------------------

\* A file is [dir, name, content]: dir the directories from the repository
\* root down, content what the scanners read of the text. "text" holds the
\* substrings the scanners search for that occur in it (contents are lower
\* case), the other fields what a parser extracts (ast, json, line by line).

\* Path.suffix of the file names used here
Suffix(name) ==
  CASE name \in {"main.py", "model.py", "foo.py", "mod.py"} -> ".py"
    [] name = "requirements.txt" -> ".txt"
    [] name = "pyproject.toml" -> ".toml"
    [] name = "package.json" -> ".json"
    [] name = "README.md" -> ".md"
    [] name = "app.dockerfile" -> ".dockerfile"
    [] name = "Dockerfile" -> ""
    [] OTHER -> ""

\* str.lower() of the names and suffixes used here
Lower(str) ==
  CASE str = "Dockerfile" -> "dockerfile"
    [] str = "README.md" -> "readme.md"
    [] OTHER -> str

\* str.startswith('.') of the directory and file names used here
StartsWithDot(str) == str \in {".git", ".github", ".cache", ".gitignore"}

MainPy ==
  [dir |-> <<>>, name |-> "main.py",
   content |-> [text |-> {"try:", "except", "#"}, functions |-> 2, classes |-> 0,
                imports |-> <<"os">>, returns |-> FALSE, docstrings |-> TRUE]]

ModelPy ==
  [dir |-> <<"src">>, name |-> "model.py",
   content |-> [text |-> {"torch", "log"}, functions |-> 1, classes |-> 1,
                imports |-> <<"torch", "os">>, returns |-> TRUE, docstrings |-> FALSE]]

\* a Python file that lies only under a dot-prefixed directory
HookPy ==
  [dir |-> <<".git", "hooks">>, name |-> "foo.py",
   content |-> [text |-> {"torch", "try:", "log", "#"}, functions |-> 3, classes |-> 1,
                imports |-> <<"subprocess", "torch">>, returns |-> TRUE,
                docstrings |-> TRUE]]

\* torch==2.0.1, opencv-python>=4.5, langchain
RequirementsTxt ==
  [dir |-> <<>>, name |-> "requirements.txt",
   content |-> [text |-> {"torch", "langchain"},
                lines |-> << [package |-> "torch", op |-> "==", version |-> "2.0.1"],
                             [package |-> "opencv-python", op |-> ">=", version |-> "4.5"],
                             [package |-> "langchain", op |-> "", version |-> ""] >>]]

\* [tool.poetry.dependencies] python, torch, requests
PyprojectToml ==
  [dir |-> <<>>, name |-> "pyproject.toml",
   content |-> [text |-> {"torch"}, poetry |-> <<"python", "torch", "requests">>]]

\* lodash is both a dependency and a devDependency
PackageJson ==
  [dir |-> <<>>, name |-> "package.json",
   content |-> [text |-> {}, dependencies |-> <<"lodash", "react">>,
                devDependencies |-> <<"lodash", "jest">>]]

\* two build stages FROM the same image, then alpine
RootDockerfile ==
  [dir |-> <<>>, name |-> "Dockerfile",
   content |-> [text |-> {"alpine"},
                from |-> <<"python:3.11", "python:3.11", "alpine">>]]

AppDockerfile ==
  [dir |-> <<"deploy">>, name |-> "app.dockerfile",
   content |-> [text |-> {}, from |-> <<"alpine">>]]

\* README texts: the keywords of _analyze_documentation_deep they contain
ReadmeWith(keywords) ==
  [dir |-> <<>>, name |-> "README.md", content |-> [text |-> keywords]]

RootReadmes ==
  { ReadmeWith({}),
    ReadmeWith({"install"}),
    ReadmeWith({"api", "license"}),
    ReadmeWith({"setup", "getting started", "usage", "demo", "rest", "config",
                "test", "testing", "docker", "contribut", "licence"}) }

DocsReadme ==
  [dir |-> <<"docs">>, name |-> "README.md",
   content |-> [text |-> {"install", "usage"}]]

FileInputs ==
  {MainPy, ModelPy, HookPy, RequirementsTxt, PyprojectToml, PackageJson,
   RootDockerfile, AppDockerfile, DocsReadme} \cup RootReadmes

\* files of a repository at the start
MaxFiles == 3

\* no two files of a repository have the same path
UniquePaths(files) ==
  \A f, g \in files : (f.dir = g.dir /\ f.name = g.name) => f = g

RepoInputs ==
  { files \in SUBSET FileInputs : Cardinality(files) <= MaxFiles /\ UniquePaths(files) }

\* python_files[:10], "Analyze first 10 files in detail"
DetailCap == 10

\* python_files[:20], "Analyze first 20 files"
SampleCap == 20

\* Python files of the largest repository
MaxModules == 21

RECURSIVE PkgPath(_)
\* the directories pkg/pkg/.../pkg, i levels deep
PkgPath(i) == IF i = 0 THEN <<>> ELSE Append(PkgPath(i - 1), "pkg")

\* mod.py in a package nested i levels deep; the outermost one defines a
\* class and a type-hinted, documented function and imports torch, the others
\* one plain function each
ModulePy(i) ==
  [dir |-> PkgPath(i), name |-> "mod.py",
   content |-> IF i = 1
               THEN [text |-> {"torch"}, functions |-> 2, classes |-> 1,
                     imports |-> <<"torch">>, returns |-> TRUE, docstrings |-> TRUE]
               ELSE [text |-> {}, functions |-> 1, classes |-> 0,
                     imports |-> <<"os">>, returns |-> FALSE, docstrings |-> FALSE]]

\* repositories with more Python files than the detailed pass and than the
\* sample read
LargeRepoInputs ==
  { {ModulePy(i) : i \in 1..n} : n \in {DetailCap + 1, MaxModules} }

\* the file lies under a dot-prefixed directory
UnderHiddenDir(f) == \E i \in DOMAIN f.dir : StartsWithDot(f.dir[i])

\* os.walk with dirs[:] = [d for d in dirs if not d.startswith('.')] and
\* files starting with '.' skipped
walk_visible(files) ==
  { f \in files : ~UnderHiddenDir(f) /\ ~StartsWithDot(f.name) }

\* repo_path.rglob('*' + suffix): every directory is searched
rglob_suffix(files, suffix) == { f \in files : Suffix(f.name) = suffix }

\* (repo_path / name).exists() and repo_path.glob(name)
InRoot(files, name) == { f \in files : f.dir = <<>> /\ f.name = name }

RECURSIVE list_of_set(_)
\* list(a_set): the elements once each (the order is that of the hash table)
list_of_set(S) ==
  IF S = {} THEN <<>>
  ELSE LET x == CHOOSE y \in S : TRUE IN <<x>> \o list_of_set(S \ {x})

\* set(a_list)
set_of_list(list) == { list[i] : i \in DOMAIN list }

\* orders in which the file system enumerates the files: the order is not
\* specified; the listings drawn here are one listing started at each of its
\* entries in turn (Rotate moves the listing on by k entries)
Listings(files) ==
  LET Rotate(list, k) ==
        [i \in 1..Len(list) |-> list[((i + k - 1) % Len(list)) + 1]]
  IN IF files = {} THEN {<<>>}
     ELSE { Rotate(list_of_set(files), k) : k \in 0..(Cardinality(files) - 1) }

\* list(repo_path.rglob('*' + suffix)) under the listing `order`
rglob_list(order, suffix) ==
  SelectSeq(order, LAMBDA f : Suffix(f.name) = suffix)

\* list[:n]
Take(list, n) == SubSeq(list, 1, Min(Len(list), n))

RECURSIVE append_new(_, _)
\* for x in items: if x not in packages: packages.append(x)
append_new(packages, items) ==
  IF items = <<>> THEN packages
  ELSE append_new(IF Head(items) \in set_of_list(packages) THEN packages
                  ELSE Append(packages, Head(items)),
                  Tail(items))

RECURSIVE SumField(_, _)
\* sum over files of a count the parser extracts
SumField(files, field) ==
  IF files = {} THEN 0
  ELSE LET f == CHOOSE g \in files : TRUE
       IN  Get(f.content, field, 0) + SumField(files \ {f}, field)

\* the language table with the dead 'dockerfile' key of both classifiers
LanguageMap ==
  [ext \in {".py", ".json", ".toml", ".md", ".dockerfile", "dockerfile"} |->
     CASE ext = ".py" -> "Python"
       [] ext = ".json" -> "JSON"
       [] ext = ".toml" -> "TOML"
       [] ext = ".md" -> "Markdown"
       [] ext \in {".dockerfile", "dockerfile"} -> "Docker"]

\* RealRepositoryAnalyzer._classify_language
classify_language(ext, filename) ==
  IF ext \in DOMAIN LanguageMap THEN LanguageMap[ext]
  ELSE IF Lower(filename) = "dockerfile" THEN "Docker"
  ELSE "Other"

FileTypes ==
  [ext \in {".py", ".json", ".toml", ".md", ".txt", ".dockerfile", "dockerfile"} |->
     CASE ext = ".py" -> "python"
       [] ext = ".json" -> "json"
       [] ext = ".toml" -> "toml"
       [] ext = ".md" -> "markdown"
       [] ext = ".txt" -> "text"
       [] ext \in {".dockerfile", "dockerfile"} -> "docker"]

\* FileProcessor.detect_file_type: the extension lookup alone
detect_file_type(file_path) ==
  LET ext == Lower(Suffix(file_path.name))
  IN  Get(FileTypes, ext, "other")

\* by_extension and by_language of _analyze_files_deep
analyze_files_deep(files) ==
  LET seen_files == walk_visible(files)
      ext_of(f)  == Lower(Suffix(f.name))
      lang_of(f) == classify_language(ext_of(f), f.name)
  IN  [by_extension |->
         [ext \in {ext_of(f) : f \in seen_files} |->
            Cardinality({f \in seen_files : ext_of(f) = ext})],
       by_language |->
         [lang \in {lang_of(f) : f \in seen_files} |->
            Cardinality({f \in seen_files : lang_of(f) = lang})]]

RECURSIVE union_imports(_)
\* metrics['imports'].add(...) over the files
union_imports(files) ==
  IF files = {} THEN {}
  ELSE LET f == CHOOSE g \in files : TRUE
       IN  set_of_list(Get(f.content, "imports", <<>>)) \cup union_imports(files \ {f})

\* RealRepositoryAnalyzer._analyze_python_code: python_files is the list it
\* is handed; the files of python_files[:10] are read
analyze_python_code(python_files) ==
  LET detailed == set_of_list(Take(python_files, DetailCap))
  IN  [total_files    |-> Len(python_files),
       imports        |-> Take(list_of_set(union_imports(detailed)), 20),
       functions      |-> PyInt(SumField(detailed, "functions")),
       classes        |-> PyInt(SumField(detailed, "classes")),
       has_type_hints |-> \E f \in detailed : Get(f.content, "returns", FALSE),
       has_docstrings |-> \E f \in detailed : Get(f.content, "docstrings", FALSE)]

\* RealRepositoryAnalyzer._analyze_code_quality: rglob and an os.walk that
\* keeps every directory
analyze_code_quality(files, order) ==
  LET python_files == rglob_list(order, ".py")
      code_files == { f \in files : Suffix(f.name) \in {".py", ".js", ".ts", ".java"} }
      contains(words) == \E f \in code_files : f.content.text \cap words # {}
  IN  [python_metrics |-> IF python_files # <<>>
                          THEN analyze_python_code(Take(python_files, SampleCap))
                          ELSE EmptyDict,
       overall |-> [has_error_handling |->
                      contains({"try:", "except", "catch", "finally", "throw", "raise"}),
                    has_logging  |-> contains({"log", "console."}),
                    has_comments |-> contains({"#", "//", "/*"})]]

\* the package name of a requirements line: the text before ==, >=, <=, ~=
requirement_package(line) ==
  IF line.op \in {"==", ">=", "<=", "~=", ""} THEN line.package
  ELSE line

\* _parse_requirements_txt
parse_requirements_txt(file) ==
  LET lines == Get(file.content, "lines", <<>>)
  IN  append_new(<<>>, [i \in DOMAIN lines |-> requirement_package(lines[i])])

\* _parse_pyproject_toml: the keys of [tool.poetry.dependencies] but python
parse_pyproject_toml(file) ==
  append_new(<<>>, SelectSeq(Get(file.content, "poetry", <<>>),
                             LAMBDA package : package # "python"))

\* _parse_package_json
parse_package_json(file) ==
  Get(file.content, "dependencies", <<>>) \o Get(file.content, "devDependencies", <<>>)

\* _parse_dockerfile
parse_dockerfile(file) == append_new(<<>>, Get(file.content, "from", <<>>))

RECURSIVE extend_all(_, _)
\* packages.extend(parse(file)) for the manifests found, in the order tried
extend_all(found, parsed) ==
  IF found = <<>> THEN <<>> ELSE parsed[Head(found)] \o extend_all(Tail(found), parsed)

\* RealRepositoryAnalyzer._analyze_dependencies_deep
analyze_dependencies_deep(files) ==
  LET present(names) == SelectSeq(names, LAMBDA name : InRoot(files, name) # {})
      the(name) == CHOOSE f \in InRoot(files, name) : TRUE
      py_found == present(<<"requirements.txt", "pyproject.toml">>)
      py_parsed == [name \in set_of_list(py_found) |->
                      IF name = "requirements.txt" THEN parse_requirements_txt(the(name))
                      ELSE parse_pyproject_toml(the(name))]
      js_found == present(<<"package.json">>)
      js_parsed == [name \in set_of_list(js_found) |-> parse_package_json(the(name))]
      docker_found == present(<<"Dockerfile">>)
      docker_parsed == [name \in set_of_list(docker_found) |-> parse_dockerfile(the(name))]
  IN  [python |-> [packages |-> list_of_set(set_of_list(extend_all(py_found, py_parsed))),
                   files_found |-> py_found],
       javascript |-> [packages |->
                         list_of_set(set_of_list(extend_all(js_found, js_parsed))),
                       files_found |-> js_found],
       docker |-> [images |->
                     list_of_set(set_of_list(extend_all(docker_found, docker_parsed))),
                   files_found |-> docker_found]]

\* RepositoryAnalyzer._analyze_dependencies
analyze_dependencies(files) ==
  [python |-> IF InRoot(files, "requirements.txt") # {}
              THEN parse_requirements_txt(CHOOSE f \in InRoot(files, "requirements.txt") : TRUE)
              ELSE <<>>,
   node   |-> IF InRoot(files, "package.json") # {}
              THEN parse_package_json(CHOOSE f \in InRoot(files, "package.json") : TRUE)
              ELSE <<>>]

\* keywords of each README section
SectionKeywords ==
  [sec \in ReadmeSections |->
     CASE sec = "installation" -> {"install", "setup", "getting started"}
       [] sec = "usage" -> {"usage", "example", "demo"}
       [] sec = "api" -> {"api", "endpoint", "rest", "graphql"}
       [] sec = "configuration" -> {"config", "setting", "environment"}
       [] sec = "testing" -> {"test", "testing"}
       [] sec = "deployment" -> {"deploy", "docker", "production"}
       [] sec = "contributing" -> {"contribut", "develop"}
       [] sec = "license" -> {"license", "licence"}]

\* found_sections of a README text
readme_sections_found(text) ==
  { sec \in ReadmeSections : SectionKeywords[sec] \cap text # {} }

\* RealRepositoryAnalyzer._analyze_documentation_deep on the repository: the
\* README is looked up in the root only
documentation_facts(files) ==
  LET readme_files == { f \in files : f.dir = <<>> /\ f.name = "README.md" }
  IN  IF readme_files # {}
      THEN analyze_documentation_deep(
             TRUE, readme_sections_found((CHOOSE f \in readme_files : TRUE).content.text),
             FALSE, FALSE)
      ELSE analyze_documentation_deep(FALSE, {}, FALSE, FALSE)

\* RealRepositoryAnalyzer._analyze_docker
analyze_docker(files) ==
  LET dockerfiles == InRoot(files, "Dockerfile")
  IN  IF dockerfiles # {}
      THEN LET from == Get((CHOOSE f \in dockerfiles : TRUE).content, "from", <<>>)
               text == (CHOOSE f \in dockerfiles : TRUE).content.text
           IN  [has_dockerfile |-> TRUE, has_docker_compose |-> FALSE,
                dockerfile_analysis |->
                  [base_images |-> append_new(<<>>, from),
                   multi_stage |-> Len(from) > 1,
                   has_healthcheck |-> "healthcheck" \in text,
                   has_non_root_user |-> "user " \in text /\ "root" \notin text,
                   has_optimizations |->
                     text \cap {"--no-cache", "--no-install-recommends", "alpine"} # {}]]
      ELSE [has_dockerfile |-> FALSE, has_docker_compose |-> FALSE,
            dockerfile_analysis |-> EmptyDict]

AiMlLibraries ==
  {"tensorflow", "torch", "pytorch", "transformers", "langchain", "openai",
   "langgraph", "crewai", "autogen", "llamaindex", "haystack", "chromadb"}

\* ai_ml_indicators of _analyze_challenge_specific: library names are searched
\* in the Python files only; lists are kept by their length
analyze_ai_ml(files, order) ==
  LET python_files == set_of_list(Take(rglob_list(order, ".py"), SampleCap))
      libraries == { lib \in AiMlLibraries : \E f \in python_files : lib \in f.content.text }
      notebooks == rglob_suffix(files, ".ipynb")
  IN  [has_ai_ml |-> libraries # {} \/ notebooks # {},
       libraries |-> Cardinality(libraries),
       model_files |-> 0,
       notebooks |-> Cardinality(notebooks)]

\* RealRepositoryAnalyzer.analyze_deep: the sections read by the scorer of
\* the file counts, code quality, dependencies, documentation, container and
\* AI/ML facts
analyze_deep(files, order) ==
  [files |-> analyze_files_deep(files),
   code_quality |-> analyze_code_quality(files, order),
   dependencies |-> analyze_dependencies_deep(files),
   documentation |-> documentation_facts(files),
   docker |-> analyze_docker(files),
   challenge_specific |-> [ai_ml_indicators |-> analyze_ai_ml(files, order)]]

\* ------------------------------------------------------------------------
\* EvaluationEngine (evaluation_engine.py): challenge rubric scoring
\* ------------------------------------------------------------------------

\* sum(1 for dep in deps.get(kind, []) if any(lib in dep.lower() for lib in libs));
\* LibsIn(dep) is the set of the library names looked for that occur in
\* dep.lower()
found_libs(analysis, kind, libs) ==
  LET deps == Get(Get(analysis, "dependencies", EmptyDict), kind, <<>>)
      LibsIn(dep) == CASE dep = "opencv-python" -> {"opencv"}
                       [] dep = "torchvision" -> {"torchvision", "torch"}
                       [] dep = "requests" -> {}
                       [] OTHER -> {dep}
  IN Cardinality({i \in DOMAIN deps : LibsIn(deps[i]) \cap libs # {}})

\* sum(1 for term in terms if term in readme_content); the README is kept as
\* the set of searched terms that occur in it
term_count(analysis, terms) ==
  Cardinality(terms \cap Get(Get(analysis, "documentation", EmptyDict),
                             "readme_content", {}))

\* analysis.get(section, {}).get(flag, False)
Flag(analysis, section, flag) == Get(Get(analysis, section, EmptyDict), flag, FALSE)

\* analysis.get('structure', {}).get('key_directories', {})
key_directories(analysis) ==
  Get(Get(analysis, "structure", EmptyDict), "key_directories", EmptyDict)

\* _get_all_files: the files of every structure entry that is a dict with a
\* 'files' key; key_directories and total_directories are not such entries
get_all_files(analysis) ==
  LET structure == Get(analysis, "structure", EmptyDict)
      entries == {k \in DOMAIN structure :
                    k \notin {"key_directories", "total_directories"}}
  IN UNION { {IF k = "/" THEN structure[k].files[i]
                         ELSE k \o "/" \o structure[k].files[i]
               : i \in DOMAIN structure[k].files} : k \in entries }

\* _calculate_bonus_score; dockerfile_from_count stands for content.count('FROM ')
\* of the file open(dockerfile_path) reads, 0 when it cannot be opened
calculate_bonus_score(analysis) ==
  LET advanced_count == term_count(analysis,
                          {"vector", "embedding", "retrieval", "cache", "optimization",
                           "performance", "monitoring", "observability"})
      docker == Get(analysis, "docker", EmptyDict)
      score == (IF advanced_count >= 3 THEN 5 ELSE IF advanced_count >= 2 THEN 3
                ELSE IF advanced_count >= 1 THEN 1 ELSE 0)
             + Pts(/\ Get(docker, "has_dockerfile", FALSE)
                   /\ Get(docker, "dockerfile_path", "") # ""
                   /\ Get(docker, "dockerfile_from_count", 0) >= 2, 3)
             + Pts(Get(Get(analysis, "tests", EmptyDict), "test_files", 0) >= 10, 4)
             + Pts(Flag(analysis, "ci_cd", "has_ci"), 3)
  IN Min(score, 15)

\* the dict every challenge rubric returns
rubric_result(score_breakdown, total_score, bonus_score) ==
  [score_breakdown |-> score_breakdown,
   total_score |-> Min(total_score, 100),
   max_score |-> 100,
   bonus_score |-> Min(bonus_score, 15),
   max_bonus |-> 15,
   final_score |-> Min(total_score, 100) + Min(bonus_score, 15)]

\* _evaluate_challenge_023 with the three score calculators it calls; the
\* 'details' texts of the categories are not kept
evaluate_challenge_023(analysis) ==
  LET calculate_tech_score_023 ==
        LET found_cv == found_libs(analysis, "python",
                          {"opencv", "pillow", "torchvision", "pytesseract", "easyocr",
                           "paddleocr"})
            found_agents == found_libs(analysis, "python",
                              {"langchain", "langgraph", "crewai", "autogen"})
            score == (IF found_cv >= 3 THEN 15 ELSE IF found_cv >= 2 THEN 10
                      ELSE IF found_cv >= 1 THEN 5 ELSE 0)
                   + (IF found_agents >= 2 THEN 15 ELSE IF found_agents >= 1 THEN 10 ELSE 0)
                   + Pts(Get(key_directories(analysis), "src", FALSE)
                         \/ Get(key_directories(analysis), "app", FALSE), 10)
                   + Pts(Flag(analysis, "tests", "has_test_directory"), 10)
                   + Pts(Flag(analysis, "docker", "has_dockerfile"), 10)
        IN Min(score, 60)
      calculate_func_score_023 ==
        LET demo_files == get_all_files(analysis)
                            \cap {"examples/run.py", "examples/demo.py", "demo.py"}
            score == Pts(Flag(analysis, "documentation", "has_setup_instructions"), 5)
                   + Pts(Flag(analysis, "documentation", "has_examples"), 5)
                   + Pts(Flag(analysis, "documentation", "has_api_docs"), 5)
                   + Pts(Cardinality(demo_files) >= 2, 5)
                   + Pts(Get(Get(analysis, "tests", EmptyDict), "test_files", 0) >= 5, 5)
        IN Min(score, 25)
      calculate_innov_score_023 ==
        LET multi_modal_count == term_count(analysis,
                                   {"multi-modal", "multimodal", "cv+llm", "computer vision",
                                    "ocr", "layout"})
            score == (IF multi_modal_count >= 3 THEN 8 ELSE IF multi_modal_count >= 2 THEN 5
                      ELSE IF multi_modal_count >= 1 THEN 3 ELSE 0)
                   + Pts(Flag(analysis, "docker", "has_dockerfile"), 4)
                   + Pts(Flag(analysis, "ci_cd", "has_ci"), 3)
        IN Min(score, 15)
      tech_score == calculate_tech_score_023
      func_score == calculate_func_score_023
      innov_score == calculate_innov_score_023
  IN rubric_result(
       <<[category |-> "Technical Implementation", score |-> tech_score, max |-> 60],
         [category |-> "Functionality & Results", score |-> func_score, max |-> 25],
         [category |-> "Innovation & Practicality", score |-> innov_score, max |-> 15]>>,
       tech_score + func_score + innov_score,
       calculate_bonus_score(analysis))

\* _evaluate_challenge_024 with _calculate_tech_score_024: the technical
\* score is computed, then the lookup of self._calculate_func_score_024, which
\* the class does not define (nor _calculate_innov_score_024), raises
\* AttributeError
evaluate_challenge_024(analysis) ==
  LET calculate_tech_score_024 ==
        LET found_rag == found_libs(analysis, "python",
                           {"langchain", "llamaindex", "chromadb", "pinecone", "faiss",
                            "qdrant"})
            found_agents == found_libs(analysis, "python", {"langgraph", "crewai", "autogen"})
            found_cloud == found_libs(analysis, "python",
                             {"boto3", "aws", "azure", "google.cloud"})
            score == (IF found_rag >= 3 THEN 20 ELSE IF found_rag >= 2 THEN 15
                      ELSE IF found_rag >= 1 THEN 10 ELSE 0)
                   + (IF found_agents >= 2 THEN 20 ELSE IF found_agents >= 1 THEN 15 ELSE 0)
                   + (IF found_cloud >= 2 THEN 20 ELSE IF found_cloud >= 1 THEN 15 ELSE 0)
        IN Min(score, 60)
      tech_score == calculate_tech_score_024
  IN [exception |-> "AttributeError", attribute |-> "_calculate_func_score_024"]

calculate_pipeline_score(analysis) ==
  LET found_etl == found_libs(analysis, "python",
                     {"pandas", "pyspark", "airflow", "luigi", "prefect", "dagster"})
      found_db == found_libs(analysis, "python",
                    {"sqlalchemy", "psycopg2", "pymongo", "redis"})
      score == (IF found_etl >= 3 THEN 15 ELSE IF found_etl >= 2 THEN 10
                ELSE IF found_etl >= 1 THEN 5 ELSE 0)
             + (IF found_db >= 2 THEN 15 ELSE IF found_db >= 1 THEN 10 ELSE 0)
             + Pts(DOMAIN key_directories(analysis) \cap {"etl", "pipeline", "data", "ingestion"} # {}, 10)
  IN Min(score, 40)

calculate_db_score(analysis) ==
  LET found_db == found_libs(analysis, "python",
                    {"sqlalchemy", "psycopg2", "pymongo", "redis", "sqlite"})
      score == (IF found_db >= 3 THEN 15 ELSE IF found_db >= 2 THEN 10
                ELSE IF found_db >= 1 THEN 5 ELSE 0)
             + Pts(DOMAIN key_directories(analysis) \cap {"models", "schema", "database", "db"} # {}, 15)
  IN Min(score, 30)

calculate_deploy_score(analysis) ==
  LET configs == Get(analysis, "configs", 0)
      score == Pts(Flag(analysis, "docker", "has_dockerfile"), 10)
             + Pts(Flag(analysis, "ci_cd", "has_ci"), 10)
             + (IF configs >= 3 THEN 10 ELSE IF configs >= 2 THEN 7
                ELSE IF configs >= 1 THEN 5 ELSE 0)
  IN Min(score, 30)

evaluate_data_pipeline(analysis) ==
  LET pipeline_score == calculate_pipeline_score(analysis)
      db_score == calculate_db_score(analysis)
      deploy_score == calculate_deploy_score(analysis)
  IN rubric_result(
       <<[category |-> "Data Pipeline", score |-> pipeline_score, max |-> 40],
         [category |-> "Database Design", score |-> db_score, max |-> 30],
         [category |-> "Deployment & Monitoring", score |-> deploy_score, max |-> 30]>>,
       pipeline_score + db_score + deploy_score,
       calculate_bonus_score(analysis))

calculate_frontend_score(analysis) ==
  LET files == Get(analysis, "files", EmptyDict)
      frontend_files == Get(files, "javascript_count", 0) + Get(files, "typescript_count", 0)
                        + Get(files, "html_count", 0) + Get(files, "css_count", 0)
      found_frontend == found_libs(analysis, "node",
                          {"react", "vue", "angular", "next", "svelte", "tailwind"})
      score == (IF frontend_files >= 20 THEN 15 ELSE IF frontend_files >= 10 THEN 10
                ELSE IF frontend_files >= 5 THEN 5 ELSE 0)
             + (IF found_frontend >= 3 THEN 20 ELSE IF found_frontend >= 2 THEN 15
                ELSE IF found_frontend >= 1 THEN 10 ELSE 0)
  IN Min(score, 35)

calculate_backend_score(analysis) ==
  LET python_files == Get(Get(analysis, "files", EmptyDict), "python_count", 0)
      found_backend == found_libs(analysis, "python",
                         {"django", "flask", "fastapi", "express", "koa"})
      score == (IF python_files >= 15 THEN 10 ELSE IF python_files >= 8 THEN 7
                ELSE IF python_files >= 3 THEN 4 ELSE 0)
             + (IF found_backend >= 2 THEN 15 ELSE IF found_backend >= 1 THEN 10 ELSE 0)
             + Pts(DOMAIN key_directories(analysis) \cap {"api", "routes", "endpoints", "controllers"} # {}, 10)
  IN Min(score, 35)

calculate_ai_score(analysis) ==
  LET found_ai == found_libs(analysis, "python",
                    {"tensorflow", "torch", "pytorch", "scikit", "transformers", "openai",
                     "langchain"})
      score == (IF found_ai >= 3 THEN 20 ELSE IF found_ai >= 2 THEN 15
                ELSE IF found_ai >= 1 THEN 10 ELSE 0)
             + Pts(DOMAIN key_directories(analysis) \cap {"models", "ai", "ml", "predict"} # {}, 10)
  IN Min(score, 30)

evaluate_full_stack(analysis) ==
  LET frontend_score == calculate_frontend_score(analysis)
      backend_score == calculate_backend_score(analysis)
      ai_score == calculate_ai_score(analysis)
  IN rubric_result(
       <<[category |-> "Frontend Development", score |-> frontend_score, max |-> 35],
         [category |-> "Backend Development", score |-> backend_score, max |-> 35],
         [category |-> "AI/ML Integration", score |-> ai_score, max |-> 30]>>,
       frontend_score + backend_score + ai_score,
       calculate_bonus_score(analysis))

calculate_design_score(analysis) ==
  LET key_dirs == key_directories(analysis)
      dir_count == Cardinality(DOMAIN key_dirs \ {"/"})
      score == Pts(Get(key_dirs, "src", FALSE) /\ Get(key_dirs, "tests", FALSE), 15)
             + (IF dir_count >= 8 THEN 15 ELSE IF dir_count >= 5 THEN 10
                ELSE IF dir_count >= 3 THEN 5 ELSE 0)
             + Pts(Get(analysis, "configs", 0) >= 3, 10)
  IN Min(score, 40)

calculate_queue_score(analysis) ==
  LET found_queue == found_libs(analysis, "python",
                       {"celery", "redis", "rq", "dramatiq"})
      score == (IF found_queue >= 2 THEN 25 ELSE IF found_queue >= 1 THEN 15 ELSE 0)
             + Pts(DOMAIN key_directories(analysis) \cap {"tasks", "workers", "queue", "jobs"} # {}, 15)
  IN Min(score, 40)

calculate_monitor_score(analysis) ==
  LET monitoring_count == term_count(analysis,
                            {"monitoring", "logging", "metrics", "observability",
                             "dashboard"})
      score == (IF monitoring_count >= 3 THEN 10 ELSE IF monitoring_count >= 2 THEN 7
                ELSE IF monitoring_count >= 1 THEN 5 ELSE 0)
             + Pts(Flag(analysis, "code_quality", "has_error_handling"), 10)
  IN Min(score, 20)

evaluate_enterprise(analysis) ==
  LET design_score == calculate_design_score(analysis)
      queue_score == calculate_queue_score(analysis)
      monitor_score == calculate_monitor_score(analysis)
  IN rubric_result(
       <<[category |-> "System Design", score |-> design_score, max |-> 40],
         [category |-> "Task Queue Implementation", score |-> queue_score, max |-> 40],
         [category |-> "Monitoring & Scalability", score |-> monitor_score, max |-> 20]>>,
       design_score + queue_score + monitor_score,
       calculate_bonus_score(analysis))

calculate_base_score(analysis) ==
  LET key_dirs == key_directories(analysis)
      score == Pts(Get(key_dirs, "src", FALSE) \/ Get(key_dirs, "app", FALSE), 20)
             + Pts(Flag(analysis, "documentation", "has_readme"), 15)
             + Pts(Flag(analysis, "documentation", "has_setup_instructions"), 10)
             + Pts(Flag(analysis, "tests", "has_test_directory"), 15)
             + Pts(\/ Get(Get(analysis, "dependencies", EmptyDict), "python", <<>>) # <<>>
                   \/ Get(Get(analysis, "dependencies", EmptyDict), "node", <<>>) # <<>>, 20)
             + Pts(Flag(analysis, "docker", "has_dockerfile"), 10)
             + Pts(Flag(analysis, "ci_cd", "has_ci"), 10)
  IN Min(score, 100)

evaluate_general(analysis) ==
  LET base_score == calculate_base_score(analysis)
  IN [score_breakdown |-> <<[category |-> "Overall Implementation",
                             score |-> base_score, max |-> 100]>>,
      total_score |-> base_score,
      max_score |-> 100,
      bonus_score |-> 0,
      max_bonus |-> 0,
      final_score |-> base_score]

\* EvaluationEngine(challenge).evaluate(analysis_results), by self.challenge_id
engine_evaluate(id, analysis_results) ==
  IF id = "challenge_023" THEN evaluate_challenge_023(analysis_results)
  ELSE IF id = "challenge_024" THEN evaluate_challenge_024(analysis_results)
  ELSE IF id = "challenge_025" THEN evaluate_data_pipeline(analysis_results)
  ELSE IF id = "challenge_026" THEN evaluate_full_stack(analysis_results)
  ELSE IF id = "challenge_027" THEN evaluate_enterprise(analysis_results)
  ELSE evaluate_general(analysis_results)

\* analysis results handed to the engine (RepositoryAnalyzer.analyze output);
\* test_files and configs are kept by their length, dockerfile_from_count is
\* what the file at dockerfile_path holds
EngineInputs ==
  LET EngineDependencies ==
        {EmptyDict,
         [dependencies |-> [python |-> <<>>, node |-> <<>>]],
         [dependencies |-> [python |-> <<"langchain", "crewai", "opencv-python", "pillow",
                                         "torchvision", "boto3", "requests">>,
                            node |-> <<>>]],
         [dependencies |-> [python |-> <<"pandas", "redis", "celery", "flask", "sqlalchemy">>,
                            node |-> <<"react", "vue", "next">>]]}
      EngineStructures ==
        {EmptyDict,
         [structure |-> [key_directories |-> EmptyDict, total_directories |-> 0]],
         [structure |-> [key_directories |-> [d \in {"src", "tests", "docs"} |-> TRUE],
                         total_directories |-> 3]],
         [structure |-> [key_directories |->
                           [d \in {"src", "app", "api", "models", "tests", "docs", "config",
                                   "data", "etl"} |-> TRUE],
                         total_directories |-> 9,
                         examples |-> [files |-> <<"run.py", "demo.py">>]]]}
      EngineEvidence ==
        {EmptyDict,
         [tests |-> [has_test_directory |-> TRUE, test_files |-> 5],
          docker |-> [has_dockerfile |-> TRUE, dockerfile_path |-> "Dockerfile",
                      has_docker_compose |-> FALSE],
          ci_cd |-> [has_ci |-> FALSE],
          documentation |-> [has_readme |-> TRUE, has_setup_instructions |-> TRUE,
                             has_examples |-> FALSE, has_api_docs |-> FALSE,
                             readme_content |-> {"ocr", "cache"}],
          configs |-> 1,
          files |-> [python_count |-> 8, javascript_count |-> 5],
          code_quality |-> [has_error_handling |-> FALSE]],
         [tests |-> [has_test_directory |-> TRUE, test_files |-> 12],
          docker |-> [has_dockerfile |-> TRUE, dockerfile_path |-> "Dockerfile",
                      dockerfile_from_count |-> 2, has_docker_compose |-> TRUE],
          ci_cd |-> [has_ci |-> TRUE],
          documentation |-> [has_readme |-> TRUE, has_setup_instructions |-> TRUE,
                             has_examples |-> TRUE, has_api_docs |-> TRUE,
                             readme_content |-> {"multimodal", "ocr", "layout", "vector",
                                                 "embedding", "cache", "monitoring",
                                                 "logging", "metrics"}],
          configs |-> 3,
          files |-> [python_count |-> 20, javascript_count |-> 30, typescript_count |-> 4,
                     html_count |-> 2, css_count |-> 2],
          code_quality |-> [has_error_handling |-> TRUE]]}
  IN
    {ErrorFacts} \cup
    {deps @@ structure @@ evidence :
       deps \in EngineDependencies, structure \in EngineStructures,
       evidence \in EngineEvidence}

\* ------------------------------------------------------------------------
\* State
\* ------------------------------------------------------------------------

VARIABLES
  experience_benchmarks,  \* the evaluator's self.experience_benchmarks
  op,                     \* entry point called: "evaluate", "adjust", "decide",
                          \* a scanner operation or "engine_evaluate"
  code_analysis,          \* arguments of the call
  experience_level,
  challenge_id,
  raw_input,              \* raw_score argument of adjust_score_for_experience,
                          \* adjusted_score argument of _determine_hiring_decision
  pc,                     \* "call", "returned" or "raised"
  result,                 \* value returned (or exception raised) by the call
  fp_round,               \* halfway values round() has met, with their outcome
  seen,                   \* an earlier call on the same evaluator, remembered
  calls,                  \* calls completed on this evaluator
  repo                    \* files of the repository a scanner is pointed at

vars == <<experience_benchmarks, op, code_analysis, experience_level,
          challenge_id, raw_input, pc, result, fp_round, seen, calls, repo>>

NoResult == [none |-> TRUE]

NoCall == [none |-> TRUE]

\* raw scores handed to adjust_score_for_experience lie this far outside 0..100
RawExcess == 15

RawInputs == {0 - RawExcess, 37, 100, 100 + RawExcess}

\* adjusted scores handed to _determine_hiring_decision, in half points
ScoreInputs == {h * (Scale \div 2) : h \in 0..200}

\* facts handed to the app engine: it reads only the penalty and reward fields
AdjustFacts ==
  {ErrorFacts} \cup
  { MakeFacts(CodeQualityNoPython, lay, doc, tst, dck, ci, chs) :
      lay \in {l \in LayoutInputs : "key_directories" \notin DOMAIN l.structure},
      doc \in DocumentationInputs, tst \in TestingInputs, dck \in DockerInputs,
      ci \in CiCdInputs,
      chs \in {c \in ChallengeSpecificInputs : ~c.web_app_indicators.has_web_app} }

InitEvaluator ==
  /\ experience_benchmarks = Benchmarks
  /\ pc = "call"
  /\ result = NoResult
  /\ fp_round = {}
  /\ seen = NoCall
  /\ calls = 0
  /\ repo = {}

Init ==
  /\ InitEvaluator
  /\ experience_level \in ExperienceLevels
  /\ challenge_id \in ChallengeIds
  /\ \/ /\ op = "evaluate"
        /\ code_analysis \in FactsInputs
        /\ raw_input = 0
     \/ /\ op = "adjust"
        /\ code_analysis \in AdjustFacts
        /\ raw_input \in RawInputs
     \/ /\ op = "decide"
        /\ code_analysis = ErrorFacts
        /\ challenge_id = "challenge_999"
        /\ raw_input \in ScoreInputs

\* round(x, 1), consistent with what round() gave for the same float before
Rounds(x, r) ==
  /\ r \in Round1Choices(x)
  /\ \A m \in fp_round : m[1] = x => m[2] = r

Halfway(x) == x % 10 = 5

\* steps 1-2 of evaluate_with_experience: the breakdown of the adjustment
evaluation_breakdown(benchmarks, facts, level, challenge) ==
  apply_experience_adjustments(calculate_raw_technical_score(facts, challenge),
                               ExpConfig(benchmarks, level), level, facts, challenge)

\* adjusted_score - expected_score, hundredths
performance_gap(benchmarks, facts, level, challenge) ==
  evaluation_breakdown(benchmarks, facts, level, challenge).final_score
    - ExpConfig(benchmarks, level).expected_score * Scale

\* the two display lines of one adjustment detail: "2. {step}: {value}" and
\* "   -> {calculation}"
detail_lines(detail) ==
  <<[line |-> "2.", step |-> detail.step, value |-> detail.value],
    [line |-> "->", step |-> detail.step, value |-> detail.value]>>

RECURSIVE details_lines(_)
\* for detail in breakdown.get("adjustment_details", []): two appends each
details_lines(details) ==
  IF details = <<>> THEN <<>>
  ELSE detail_lines(Head(details)) \o details_lines(Tail(details))

\* ExperienceAwareEvaluator._get_calculation_steps; final_1f is
\* f"{breakdown['final_score']:.1f}", in hundredths
get_calculation_steps(breakdown, final_1f) ==
  <<[line |-> "1.", step |-> "Raw Technical Score", value |-> breakdown.raw_score]>>
  \o details_lines(breakdown.adjustment_details)
  \o <<[line |-> "3.", step |-> "Final Adjusted Score", value |-> final_1f]>>

\* step 6 of evaluate_with_experience: the dict returned, without its texts;
\* rf and rg are round(adjusted_score, 1) and round(performance_gap, 1)
evaluation_result(benchmarks, facts, level, challenge, rf, rg) ==
  LET exp_config == ExpConfig(benchmarks, level)
      breakdown  == evaluation_breakdown(benchmarks, facts, level, challenge)
  IN  [experience_level     |-> level,
       score_range          |-> exp_config.score_range,
       raw_technical_score  |-> breakdown.raw_score * Scale,
       final_adjusted_score |-> rf,
       industry_expected    |-> exp_config.expected_score,
       performance_gap      |-> rg,
       hiring_decision      |->
          determine_hiring_decision(benchmarks, breakdown.final_score, level),
       recommendation       |->
          get_recommendation(benchmarks, breakdown.final_score, level),
       calculation_steps    |-> get_calculation_steps(breakdown, rf),
       score_breakdown      |-> breakdown]

\* the call with exp_config["multiplier"] lowered in place after use, which
\* writes through to the shared table
evaluate_with_experience_writes_table ==
  /\ pc = "call"
  /\ op = "evaluate"
  /\ ~code_quality_raises(code_analysis)
  /\ LET adjusted_score == evaluation_breakdown(experience_benchmarks, code_analysis,
                             experience_level, challenge_id).final_score
         gap == performance_gap(experience_benchmarks, code_analysis,
                                experience_level, challenge_id)
         row == IF experience_level \in TierSet THEN experience_level ELSE "fresher"
     IN  \E rf \in Round1Choices(adjusted_score), rg \in Round1Choices(gap) :
           /\ Rounds(adjusted_score, rf)
           /\ Rounds(gap, rg)
           /\ pc' = "returned"
           /\ result' = evaluation_result(experience_benchmarks, code_analysis,
                                          experience_level, challenge_id, rf, rg)
           /\ fp_round' = fp_round
                \cup {m \in {<<adjusted_score, rf>>, <<gap, rg>>} : Halfway(m[1])}
           /\ experience_benchmarks' =
                [experience_benchmarks EXCEPT ![row].multiplier = @ - 5]
  /\ calls' = calls + 1
  /\ UNCHANGED <<op, code_analysis, experience_level, challenge_id, raw_input, seen, repo>>

\* the call with code_analysis.setdefault("testing", {}) before the scoring,
\* which writes the default into the caller's facts record
evaluate_with_experience_fills_defaults ==
  /\ pc = "call"
  /\ op = "evaluate"
  /\ IF code_quality_raises(code_analysis)
     THEN /\ pc' = "raised"
          /\ result' = [exception |-> "TypeError"]
          /\ fp_round' = fp_round
     ELSE LET adjusted_score == evaluation_breakdown(experience_benchmarks, code_analysis,
                                  experience_level, challenge_id).final_score
              gap == performance_gap(experience_benchmarks, code_analysis,
                                     experience_level, challenge_id)
          IN  \E rf \in Round1Choices(adjusted_score), rg \in Round1Choices(gap) :
                /\ Rounds(adjusted_score, rf)
                /\ Rounds(gap, rg)
                /\ pc' = "returned"
                /\ result' = evaluation_result(experience_benchmarks, code_analysis,
                                               experience_level, challenge_id, rf, rg)
                /\ fp_round' = fp_round
                     \cup {m \in {<<adjusted_score, rf>>, <<gap, rg>>} : Halfway(m[1])}
  /\ code_analysis' = [k \in DOMAIN code_analysis \cup {"testing"} |->
                         Get(code_analysis, k, EmptyDict)]
  /\ calls' = calls + 1
  /\ UNCHANGED <<experience_benchmarks, op, experience_level,
                 challenge_id, raw_input, seen, repo>>

\* ExperienceAwareEvaluator.evaluate_with_experience
evaluate_with_experience ==
  /\ pc = "call"
  /\ op = "evaluate"
  /\ IF code_quality_raises(code_analysis)
     THEN /\ pc' = "raised"
          /\ result' = [exception |-> "TypeError"]
          /\ fp_round' = fp_round
     ELSE LET adjusted_score == evaluation_breakdown(experience_benchmarks, code_analysis,
                                  experience_level, challenge_id).final_score
              gap == performance_gap(experience_benchmarks, code_analysis,
                                     experience_level, challenge_id)
          IN  \E rf \in Round1Choices(adjusted_score), rg \in Round1Choices(gap) :
                /\ Rounds(adjusted_score, rf)
                /\ Rounds(gap, rg)
                /\ pc' = "returned"
                /\ result' = evaluation_result(experience_benchmarks, code_analysis,
                                               experience_level, challenge_id, rf, rg)
                /\ fp_round' = fp_round
                     \cup {m \in {<<adjusted_score, rf>>, <<gap, rg>>} : Halfway(m[1])}
  /\ calls' = calls + 1
  /\ UNCHANGED <<experience_benchmarks, op, code_analysis, experience_level,
                 challenge_id, raw_input, seen, repo>>

\* ExperienceScoringEngine.adjust_score_for_experience
adjust_score_for_experience ==
  /\ pc = "call"
  /\ op = "adjust"
  /\ pc' = "returned"
  /\ result' = adjust_score(raw_input, experience_level, code_analysis, challenge_id)
  /\ calls' = calls + 1
  /\ UNCHANGED <<experience_benchmarks, op, code_analysis, experience_level,
                 challenge_id, raw_input, fp_round, seen, repo>>

\* ExperienceAwareEvaluator._determine_hiring_decision and _get_recommendation,
\* called on an adjusted score
determine_hiring_decision_call ==
  /\ pc = "call"
  /\ op = "decide"
  /\ pc' = "returned"
  /\ result' = [hiring_decision |->
                  determine_hiring_decision(experience_benchmarks, raw_input,
                                            experience_level),
                recommendation |->
                  get_recommendation(experience_benchmarks, raw_input,
                                     experience_level)]
  /\ calls' = calls + 1
  /\ UNCHANGED <<experience_benchmarks, op, code_analysis, experience_level,
                 challenge_id, raw_input, fp_round, seen, repo>>

Next ==
  \/ evaluate_with_experience
  \/ adjust_score_for_experience
  \/ determine_hiring_decision_call

Spec == Init /\ [][Next]_vars

\* ------------------------------------------------------------------------
\* Several calls on one evaluator instance
\* ------------------------------------------------------------------------

\* calls made on one evaluator instance
MaxCalls == 3

CallFacts ==
  {ErrorFacts} \cup
  { MakeFacts(CodeQualityNoPython, lay, doc, tst, dck, ci, chs) :
      lay \in {l \in LayoutInputs : "key_directories" \notin DOMAIN l.structure},
      doc \in {d \in DocumentationInputs : d.readme.quality_score = 0},
      tst \in TestingInputs,
      dck \in {d \in DockerInputs : ~d.has_dockerfile},
      ci \in {c \in CiCdInputs : ~c.has_ci},
      chs \in {c \in ChallengeSpecificInputs : ~c.ai_ml_indicators.has_ai_ml} }
  \cup
  { MakeFacts(cq, lay, doc, tst, dck, ci, chs) :
      cq \in {c \in CodeQualityLists : c.overall.has_logging},
      lay \in {l \in LayoutInputs : "key_directories" \in DOMAIN l.structure},
      doc \in {d \in DocumentationInputs : d.readme.quality_score = 7},
      tst \in {t \in TestingInputs : t.has_tests},
      dck \in {d \in DockerInputs : d.has_dockerfile},
      ci \in {c \in CiCdInputs : ~c.has_ci},
      chs \in {c \in ChallengeSpecificInputs : c.web_app_indicators.has_web_app} }

CallLevels == {"2nd_year", "4th_year", UnknownLevel}

CallChallenges == {"challenge_023"}

InitCalls ==
  /\ InitEvaluator
  /\ op = "evaluate"
  /\ code_analysis \in CallFacts
  /\ experience_level \in CallLevels
  /\ challenge_id \in CallChallenges
  /\ raw_input = 0

\* the caller invokes evaluate_with_experience again on the same instance,
\* and may keep the call that just ended for comparison
call_again ==
  /\ pc \in {"returned", "raised"}
  /\ calls < MaxCalls
  /\ seen' \in {seen, [code_analysis |-> code_analysis,
                       experience_level |-> experience_level,
                       challenge_id |-> challenge_id,
                       pc |-> pc, result |-> result]}
  /\ code_analysis' \in CallFacts
  /\ experience_level' \in CallLevels
  /\ challenge_id' \in CallChallenges
  /\ pc' = "call"
  /\ result' = NoResult
  /\ UNCHANGED <<experience_benchmarks, op, raw_input, fp_round, calls, repo>>

NextCalls ==
  \/ evaluate_with_experience
  \/ call_again

SpecCalls == InitCalls /\ [][NextCalls]_vars

\* ------------------------------------------------------------------------
\* The scanners and classifiers run on a repository
\* ------------------------------------------------------------------------

ScanOps == {"analyze_deep", "analyze_dependencies", "classify"}

InitScan ==
  /\ experience_benchmarks = Benchmarks
  /\ pc = "call"
  /\ result = NoResult
  /\ fp_round = {}
  /\ seen = NoCall
  /\ calls = 0
  /\ code_analysis = ErrorFacts
  /\ experience_level = "fresher"
  /\ challenge_id = "challenge_023"
  /\ raw_input = 0
  /\ op \in ScanOps
  /\ repo \in RepoInputs \cup LargeRepoInputs

\* RealRepositoryAnalyzer(repo_path).analyze_deep()
analyze_deep_call ==
  /\ pc = "call"
  /\ op = "analyze_deep"
  /\ pc' = "returned"
  /\ \E order \in Listings(repo) : result' = analyze_deep(repo, order)
  /\ calls' = calls + 1
  /\ UNCHANGED <<experience_benchmarks, op, code_analysis, experience_level,
                 challenge_id, raw_input, fp_round, seen, repo>>

\* RepositoryAnalyzer(repo_path)._analyze_dependencies()
analyze_dependencies_call ==
  /\ pc = "call"
  /\ op = "analyze_dependencies"
  /\ pc' = "returned"
  /\ result' = analyze_dependencies(repo)
  /\ calls' = calls + 1
  /\ UNCHANGED <<experience_benchmarks, op, code_analysis, experience_level,
                 challenge_id, raw_input, fp_round, seen, repo>>

\* both classifiers applied to every file of the repository
classify_files ==
  /\ pc = "call"
  /\ op = "classify"
  /\ pc' = "returned"
  /\ result' = [f \in repo |->
                  [file_type |-> detect_file_type(f),
                   language  |-> classify_language(Lower(Suffix(f.name)), f.name)]]
  /\ calls' = calls + 1
  /\ UNCHANGED <<experience_benchmarks, op, code_analysis, experience_level,
                 challenge_id, raw_input, fp_round, seen, repo>>

\* a file is added to the scanned repository, which is then scanned again;
\* the first scan is kept for comparison
add_file ==
  /\ pc = "returned"
  /\ op = "analyze_deep"
  /\ seen = NoCall
  /\ \E f \in {g \in FileInputs \ repo : UniquePaths(repo \cup {g})} :
       repo' = repo \cup {f}
  /\ seen' = [repo |-> repo, result |-> result]
  /\ pc' = "call"
  /\ result' = NoResult
  /\ UNCHANGED <<experience_benchmarks, op, code_analysis, experience_level,
                 challenge_id, raw_input, fp_round, calls>>

\* the same repository is scanned a second time; the first scan is kept for
\* comparison
scan_again ==
  /\ pc = "returned"
  /\ op = "analyze_deep"
  /\ seen = NoCall
  /\ seen' = [repo |-> repo, result |-> result]
  /\ pc' = "call"
  /\ result' = NoResult
  /\ UNCHANGED <<experience_benchmarks, op, code_analysis, experience_level,
                 challenge_id, raw_input, fp_round, calls, repo>>

NextScan ==
  \/ analyze_deep_call
  \/ analyze_dependencies_call
  \/ classify_files
  \/ add_file
  \/ scan_again

SpecScan == InitScan /\ [][NextScan]_vars

\* ------------------------------------------------------------------------
\* The challenge rubric engine evaluates an analysis
\* ------------------------------------------------------------------------

InitEngine ==
  /\ InitEvaluator
  /\ experience_level = "fresher"
  /\ raw_input = 0
  /\ op = "engine_evaluate"
  /\ challenge_id \in ChallengeIds
  /\ code_analysis \in EngineInputs

\* EvaluationEngine({'_id': challenge_id}).evaluate(code_analysis)
engine_evaluate_call ==
  /\ pc = "call"
  /\ op = "engine_evaluate"
  /\ LET outcome == engine_evaluate(challenge_id, code_analysis)
     IN /\ result' = outcome
        /\ pc' = IF "exception" \in DOMAIN outcome THEN "raised" ELSE "returned"
  /\ calls' = calls + 1
  /\ UNCHANGED <<experience_benchmarks, op, code_analysis, experience_level,
                 challenge_id, raw_input, fp_round, seen, repo>>

NextEngine == engine_evaluate_call

SpecEngine == InitEngine /\ [][NextEngine]_vars

\* ------------------------------------------------------------------------
\* Properties
\* ------------------------------------------------------------------------

Returned(o) == pc = "returned" /\ op = o

\* value of raw * multiplier - penalties + rewards before the clamp, hundredths
Unclamped(b) == b.raw_score * b.multiplier_applied - b.penalties * Scale + b.rewards * Scale

\* C1: the final score produced by the experience adjustment, of the evaluator
\* and of the app engine (for any raw score), lies in [0, 100]
C1_FinalScoreInRange ==
  /\ Returned("evaluate") =>
       /\ result.score_breakdown.final_score >= 0
       /\ result.score_breakdown.final_score <= 100 * Scale
       /\ result.final_adjusted_score >= 0
       /\ result.final_adjusted_score <= 100 * Scale
  /\ Returned("adjust") =>
       /\ result.final_score >= 0
       /\ result.final_score <= 100 * Scale

\* an evaluation whose adjusted score exceeded 100 before the clamp
C1_Witness ==
  /\ Returned("evaluate")
  /\ Unclamped(result.score_breakdown) > 100 * Scale

BreakdownConsistent(b) ==
  LET v == b.raw_score * b.multiplier_applied - b.penalties * Scale + b.rewards * Scale
  IN  b.final_score = (IF v < 0 THEN 0 ELSE IF v > 100 * Scale THEN 100 * Scale ELSE v)

\* C3 as stated: the breakdown is self-consistent and the final_adjusted_score
\* returned to the caller is the same value as breakdown.final_score
C3_Original ==
  Returned("evaluate") =>
    /\ BreakdownConsistent(result.score_breakdown)
    /\ result.final_adjusted_score = result.score_breakdown.final_score

\* C3 amended: breakdown.final_score = max(0, min(100, raw * multiplier -
\* penalties + rewards)), and the final_adjusted_score returned to the caller
\* is that value rounded to one decimal place (at most 0.05 away from it)
C3_BreakdownConsistentRounded ==
  Returned("evaluate") =>
    /\ BreakdownConsistent(result.score_breakdown)
    /\ result.final_adjusted_score % 10 = 0
    /\ result.final_adjusted_score - result.score_breakdown.final_score \in -5..5

\* an evaluation with penalties and rewards whose final score has two decimals
C3_Witness ==
  /\ Returned("evaluate")
  /\ result.score_breakdown.penalties > 0
  /\ result.score_breakdown.rewards > 0
  /\ result.final_adjusted_score # result.score_breakdown.final_score

\* the call that just ended has the arguments of the remembered earlier call
SameArguments ==
  /\ pc \in {"returned", "raised"}
  /\ "code_analysis" \in DOMAIN seen
  /\ seen.code_analysis = code_analysis
  /\ seen.experience_level = experience_level
  /\ seen.challenge_id = challenge_id

\* C4: over any sequence of calls on one evaluator, a call with the arguments
\* of an earlier call returns what that call returned (raw score, breakdown,
\* final score, hiring decision), whatever was called in between, and no call
\* changes the benchmark table
C4_CallsIndependent ==
  /\ experience_benchmarks = Benchmarks
  /\ SameArguments => (seen.pc = pc /\ seen.result = result)

\* a third call repeating a remembered call after a different call in between,
\* with a final score that needed rounding at a halfway value
C4_Witness ==
  /\ SameArguments
  /\ calls = 3
  /\ pc = "returned"
  /\ fp_round # {}
  /\ result.score_breakdown.final_score # result.final_adjusted_score

\* position of a tier in the tier order
TierIndex(l) == CHOOSE i \in DOMAIN Tiers : Tiers[i] = l

\* no tests, no CI, no Dockerfile
LacksExpected(facts) == ~HasTests(facts) /\ ~HasCi(facts) /\ ~HasDockerfile(facts)

\* final score of the same facts and challenge at another tier
FinalAt(level) ==
  evaluation_breakdown(experience_benchmarks, code_analysis, level, challenge_id).final_score

NeverIncreases(mult, exempt) ==
  \A i, j \in DOMAIN Tiers :
    (i < j /\ Tiers[j] \notin exempt) => mult[Tiers[j]] <= mult[Tiers[i]]

MultipliersInRange(mult) ==
  /\ \A l \in TierSet : mult[l] > 0 /\ mult[l] <= 100
  /\ mult["1st_year"] = 100
  /\ mult["senior"] = 75

EvaluatorMultipliers == [l \in TierSet |-> experience_benchmarks[l].multiplier]

ClaimedDecision(s, level, e) ==
  IF level \in {"senior", "experienced_0_2"}
  THEN (IF s >= (e + 10) * Scale THEN "Strong Hire"
        ELSE IF s >= e * Scale THEN "Hire"
        ELSE IF s >= (e - 10) * Scale THEN "Borderline" ELSE "Reject")
  ELSE IF level \in {"3rd_year", "4th_year"}
  THEN (IF s >= (e + 15) * Scale THEN "Strong Hire"
        ELSE IF s >= (e + 5) * Scale THEN "Hire"
        ELSE IF s >= (e - 5) * Scale THEN "Borderline" ELSE "Reject")
  ELSE (IF s >= (e + 20) * Scale THEN "Strong Hire"
        ELSE IF s >= (e + 10) * Scale THEN "Hire"
        ELSE IF s >= e * Scale THEN "Borderline" ELSE "Reject")

\* C7: for every final score s and tier with expected score e the hiring
\* decision follows the offsets (+10, 0, -10) for senior and experienced_0_2,
\* (+15, +5, -5) for 3rd_year and 4th_year, (+20, +10, 0) for every other
\* level (an unknown level is judged against the expected score of fresher)
C7_HiringDecisionTable ==
  LET e == IF experience_level \in TierSet
           THEN TierExpectedScore(experience_level)
           ELSE TierExpectedScore("fresher")
  IN  /\ Returned("decide") =>
           result.hiring_decision = ClaimedDecision(raw_input, experience_level, e)
      /\ Returned("evaluate") =>
           result.hiring_decision =
             ClaimedDecision(result.score_breakdown.final_score, experience_level, e)

\* a senior score exactly on the Strong Hire threshold 85 + 10
C7_Witness ==
  /\ Returned("decide")
  /\ experience_level = "senior"
  /\ raw_input = 95 * Scale
  /\ result.hiring_decision = "Strong Hire"

\* C8: an experience level that is none of the seven tiers gives exactly the
\* outcome of the same call at fresher: same multiplier, expected score,
\* penalties, rewards, final score and hiring decision
C8_UnknownLevelAsFresher ==
  /\ (op = "evaluate" /\ experience_level \notin TierSet /\ pc # "call") =>
       IF code_quality_raises(code_analysis)
       THEN pc = "raised"
       ELSE /\ pc = "returned"
            /\ result.score_breakdown =
                 evaluation_breakdown(experience_benchmarks, code_analysis,
                                      "fresher", challenge_id)
            /\ result.industry_expected = experience_benchmarks["fresher"].expected_score
            /\ result.hiring_decision =
                 determine_hiring_decision(experience_benchmarks,
                                           FinalAt("fresher"), "fresher")
  /\ (Returned("adjust") /\ experience_level \notin TierSet) =>
       LET fresher == adjust_score(raw_input, "fresher", code_analysis, challenge_id)
       IN  /\ result.multiplier_applied = fresher.multiplier_applied
           /\ result.industry_benchmark = fresher.industry_benchmark
           /\ result.penalties_applied = fresher.penalties_applied
           /\ result.rewards_applied = fresher.rewards_applied
           /\ result.final_score = fresher.final_score

\* facts records analyze_deep can return: the failure record, or facts whose
\* python_metrics is empty (no Python file) or carries the scanner's counts
AnalyzeDeepCanReturn(facts) ==
  \/ facts = ErrorFacts
  \/ /\ facts # ErrorFacts
     /\ "key_directories" \notin DOMAIN facts.structure
     /\ facts.code_quality \in {CodeQualityNoPython} \cup CodeQualityScanned

\* C9: for every facts record analyze_deep can return, evaluate_with_experience
\* completes and returns a raw score and a final score
C9_PipelineNeverHalts ==
  (op = "evaluate" /\ AnalyzeDeepCanReturn(code_analysis) /\ pc # "call") =>
    /\ pc = "returned"
    /\ result.raw_technical_score \in 0..(100 * Scale)
    /\ result.final_adjusted_score \in 0..(100 * Scale)

\* C10: on the scanner's failure record the evaluation completes, for every
\* tier and challenge, with raw score 0, final score 0 and decision Reject
C10_ErrorRecordScoresZero ==
  (op = "evaluate" /\ code_analysis = ErrorFacts /\ pc # "call") =>
    /\ pc = "returned"
    /\ result.raw_technical_score = 0
    /\ result.score_breakdown.final_score = 0
    /\ result.final_adjusted_score = 0
    /\ result.hiring_decision = "Reject"

\* the failure record evaluated at senior for the AI challenge: 30 penalty points
C10_Witness ==
  /\ Returned("evaluate")
  /\ code_analysis = ErrorFacts
  /\ experience_level = "senior"
  /\ result.score_breakdown.penalties = 30

\* the files added since the scan remembered in seen
AddedFiles == repo \ seen.repo

\* C11: adding a file that lies only under a dot-prefixed directory leaves
\* the scanner's per-language file counts, python_metrics, the quality signals
\* has_error_handling / has_logging / has_comments and the AI/ML indicators
\* unchanged
C11_HiddenFileLeavesFactsUnchanged ==
  (/\ op = "analyze_deep" /\ pc = "returned" /\ seen # NoCall
   /\ AddedFiles # {}
   /\ \A f \in AddedFiles : UnderHiddenDir(f)) =>
    /\ result.files.by_language = seen.result.files.by_language
    /\ result.code_quality.python_metrics = seen.result.code_quality.python_metrics
    /\ result.code_quality.overall = seen.result.code_quality.overall
    /\ result.challenge_specific.ai_ml_indicators =
         seen.result.challenge_specific.ai_ml_indicators

\* the list holds no entry twice
NoDuplicates(list) == \A i, j \in DOMAIN list : list[i] = list[j] => i = j

\* C12: in every facts record a scanner produces, each dependency list
\* (Python packages, JavaScript/Node packages, container base images) and each
\* import list contains no entry twice, whatever the manifests contain
C12_ListsHoldNoDuplicates ==
  /\ Returned("analyze_deep") =>
       /\ NoDuplicates(result.dependencies.python.packages)
       /\ NoDuplicates(result.dependencies.javascript.packages)
       /\ NoDuplicates(result.dependencies.docker.images)
       /\ NoDuplicates(Get(result.docker.dockerfile_analysis, "base_images", <<>>))
       /\ NoDuplicates(Get(result.code_quality.python_metrics, "imports", <<>>))
  /\ Returned("analyze_dependencies") =>
       /\ NoDuplicates(result.python)
       /\ NoDuplicates(result.node)

\* C13 (Scenario D): for a repository whose AI/ML evidence is a
\* requirements.txt listing torch, opencv-python and langchain, the scanner
\* reports has_ai_ml = true and the challenge-specific penalty of the AI/ML
\* challenge is 0 at every tier
C13_RequirementsShowAiMl ==
  (Returned("analyze_deep") /\ RequirementsTxt \in repo) =>
    /\ result.challenge_specific.ai_ml_indicators.has_ai_ml
    /\ \A tier \in TierSet :
         calculate_challenge_penalties(result, "challenge_023", tier) = 0

\* number of functions and of classes python_metrics reports, as a count or
\* as a list of names
Definitions(facts) ==
  LET py_metrics == facts.code_quality.python_metrics
      count(v) == IF v.type = "int" THEN v.value ELSE v.len
  IN  count(py_metrics.functions) + count(py_metrics.classes)

\* the facts of Scenario A: no README, no tests, no Dockerfile, no CI and
\* Python code with no functions or classes
ScenarioA(facts) ==
  /\ facts # ErrorFacts
  /\ ~ReadmeExists(facts) /\ ~HasTests(facts)
  /\ ~HasDockerfile(facts) /\ ~HasCi(facts)
  /\ facts.code_quality.python_metrics # EmptyDict
  /\ Definitions(facts) = 0

\* C14 (Scenario A): evaluated at senior for any challenge, the Scenario A
\* facts give README quality score 0, testing category 0, raw score below 20,
\* penalties above 0, final score 0 and the decision Reject
C14_ScenarioA ==
  (/\ op = "evaluate" /\ pc # "call" /\ ScenarioA(code_analysis)
   /\ experience_level = "senior") =>
    /\ pc = "returned"
    /\ ReadmeQuality(code_analysis) = 0
    /\ category_scores(code_analysis, challenge_id).testing = 0
    /\ result.raw_technical_score < 20 * Scale
    /\ result.score_breakdown.penalties > 0
    /\ result.score_breakdown.final_score = 0
    /\ result.final_adjusted_score = 0
    /\ result.hiring_decision = "Reject"

\* C15 (Scenario B, score): the Scenario A facts evaluated at 1st_year get
\* multiplier 1.0 and a final score strictly higher than the same facts and
\* challenge get at senior
C15_ScenarioBScore ==
  (/\ op = "evaluate" /\ pc # "call" /\ ScenarioA(code_analysis)
   /\ experience_level = "1st_year") =>
    /\ pc = "returned"
    /\ result.score_breakdown.multiplier_applied = 100
    /\ result.score_breakdown.final_score > FinalAt("senior")

\* C16 (Scenario B, decision): the Scenario A facts evaluated at 1st_year get
\* the hiring decision Borderline rather than Reject
C16_ScenarioBDecision ==
  (/\ op = "evaluate" /\ pc # "call" /\ ScenarioA(code_analysis)
   /\ experience_level = "1st_year") =>
    /\ pc = "returned"
    /\ result.hiring_decision = "Borderline"

\* C17: the facts record handed to evaluate_with_experience and to
\* adjust_score_for_experience is never mutated: when the call ends, whether
\* it returns or raises, every field of the record, at every depth, has the
\* value it had before the call
C17_FactsNeverMutated ==
  [][(pc = "call" /\ op \in {"evaluate", "adjust"}) => code_analysis' = code_analysis]_vars

\* an evaluation that read the failure record, which has no "testing" field,
\* and returned
C17_Witness ==
  /\ Returned("evaluate")
  /\ code_analysis = ErrorFacts
  /\ "testing" \notin DOMAIN code_analysis
  /\ result.score_breakdown.penalties > 0

\* C18: a file named exactly Dockerfile is given the docker type by both
\* classifiers, FileProcessor.detect_file_type and
\* RealRepositoryAnalyzer._classify_language
C18_DockerfileIsDocker ==
  Returned("classify") =>
    \A f \in repo :
      f.name = "Dockerfile" =>
        /\ result[f].file_type = "docker"
        /\ result[f].language = "Docker"

\* the five general-purpose categories with the cap of each
GeneralCaps ==
  [code_quality |-> 25, architecture |-> 20, documentation |-> 15,
   testing |-> 15, production |-> 15]

GeneralTotal(c) ==
  c.code_quality + c.architecture + c.documentation + c.testing + c.production

GeneralMaxed(c) ==
  \A k \in DOMAIN GeneralCaps : c[k] = GeneralCaps[k]

\* C19 as stated: a repository that maxes the five general-purpose
\* categories reaches raw score 100 without any challenge-specific points
C19_GeneralCapsReach100 ==
  LET c == category_scores(code_analysis, challenge_id)
  IN  (Returned("evaluate") /\ GeneralMaxed(c) /\ c.challenge_specific = 0) =>
        result.raw_technical_score = 100 * Scale

\* C19: the caps of the five general-purpose categories sum to 90 and the
\* challenge-specific cap of 10 completes the 100: the raw score is the sum
\* of the six capped scores, no general category exceeds its cap, and a
\* repository that maxes the five general categories without
\* challenge-specific points has raw score 90
C19_GeneralCapsSumTo90 ==
  LET c == category_scores(code_analysis, challenge_id)
  IN  Returned("evaluate") =>
        /\ \A k \in DOMAIN GeneralCaps : c[k] <= GeneralCaps[k]
        /\ GeneralTotal(c) <= 90
        /\ c.challenge_specific <= 10
        /\ result.raw_technical_score = (GeneralTotal(c) + c.challenge_specific) * Scale
        /\ (GeneralMaxed(c) /\ c.challenge_specific = 0) =>
             result.raw_technical_score = 90 * Scale

\* the five general categories at their caps, no challenge-specific points
C19_Witness ==
  /\ Returned("evaluate")
  /\ GeneralMaxed(category_scores(code_analysis, challenge_id))
  /\ category_scores(code_analysis, challenge_id).challenge_specific = 0
  /\ result.raw_technical_score = 90 * Scale

\* the sections the scanner reports as found in the README
SectionsFound(readme) ==
  { sec \in DOMAIN readme.sections : readme.sections[sec] }

\* C20 as stated: the README quality score equals the number of recognized
\* sections found, capped at 10, and is 0 with exists = false when the
\* repository root holds no README
C20_ScoreCountsSections ==
  Returned("analyze_deep") =>
    LET readme == result.documentation.readme
    IN  IF InRoot(repo, "README.md") = {}
        THEN ~readme.exists /\ readme.quality_score = 0
        ELSE /\ readme.exists
             /\ readme.quality_score = Min(Cardinality(SectionsFound(readme)), 10)

\* C20: the README quality score is the weighted number of recognized
\* sections found, installation and usage counting 2 each and api,
\* configuration, testing, deployment, contributing and license 1 each,
\* which is at most 10; the sections found are those with a keyword in the
\* root README; the score is 0 with exists = false when the repository root
\* holds no README
C20_ScoreWeighsSections ==
  Returned("analyze_deep") =>
    LET readme == result.documentation.readme
        found  == SectionsFound(readme)
    IN  IF InRoot(repo, "README.md") = {}
        THEN ~readme.exists /\ readme.quality_score = 0
        ELSE /\ readme.exists
             /\ \A f \in InRoot(repo, "README.md") :
                  found = { sec \in ReadmeSections :
                              SectionKeywords[sec] \cap f.content.text # {} }
             /\ readme.quality_score =
                  Cardinality(found) + Cardinality(found \cap {"installation", "usage"})
             /\ readme.quality_score <= 10

\* a root README with the installation section only: one section, score 2
C20_Witness ==
  /\ Returned("analyze_deep")
  /\ ReadmeWith({"install"}) \in repo
  /\ SectionsFound(result.documentation.readme) = {"installation"}
  /\ result.documentation.readme.quality_score = 2

\* facts with the function and class name lists replaced by lists of
\* lengths f and c
WithCounts(facts, f, c) ==
  [facts EXCEPT !.code_quality.python_metrics.functions = PyList(f),
                !.code_quality.python_metrics.classes = PyList(c)]

\* the tier table as the specification words it
TierTable(f, c) ==
  IF f >= 10 /\ c >= 3 THEN 8
  ELSE IF f >= 5 /\ c >= 2 THEN 5
  ELSE IF f >= 2 THEN 3
  ELSE 0

\* for all counts up to MaxItems, the function/class points follow the
\* table, are one of 0, 3, 5, 8 and do not decrease when a count grows
FunctionClassTableHolds ==
  \A f \in 0..MaxItems, c \in 0..MaxItems :
    /\ function_class_points(f, c) = TierTable(f, c)
    /\ function_class_points(f, c) \in {0, 3, 5, 8}
    /\ \A f2 \in f..MaxItems, c2 \in c..MaxItems :
         function_class_points(f2, c2) >= function_class_points(f, c)

HasNameLists(facts) ==
  /\ "code_quality" \in DOMAIN facts
  /\ {"functions", "classes"} \subseteq DOMAIN facts.code_quality.python_metrics
  /\ ~code_quality_raises(facts)

\* C21: the function/class part of the code-quality score is the first-match
\* tier table (8 for functions >= 10 and classes >= 3, else 5 for
\* functions >= 5 and classes >= 2, else 3 for functions >= 2, else 0): in
\* every evaluation it is what the code-quality score gains over the same
\* facts without functions and classes, it is one of 0, 3, 5, 8, and it
\* never decreases when either count grows
C21_FunctionClassTiers ==
  (Returned("evaluate") /\ HasNameLists(code_analysis)) =>
    LET py_metrics == code_analysis.code_quality.python_metrics
        f == PyLen(py_metrics.functions)
        c == PyLen(py_metrics.classes)
        part == calculate_code_quality_score(code_analysis)
                  - calculate_code_quality_score(WithCounts(code_analysis, 0, 0))
    IN  /\ part = TierTable(f, c)
        /\ part \in {0, 3, 5, 8}
        /\ \A f2 \in f..MaxItems, c2 \in c..MaxItems :
             calculate_code_quality_score(WithCounts(code_analysis, f2, c2))
               >= calculate_code_quality_score(code_analysis)
        /\ FunctionClassTableHolds

\* an evaluation of facts in the top tier of the table
C21_Witness ==
  /\ Returned("evaluate")
  /\ HasNameLists(code_analysis)
  /\ PyLen(code_analysis.code_quality.python_metrics.functions) >= 10
  /\ PyLen(code_analysis.code_quality.python_metrics.classes) >= 3
  /\ category_scores(code_analysis, challenge_id).code_quality
       = 8 + calculate_code_quality_score(WithCounts(code_analysis, 0, 0))

\* the tier-conditioned penalty as the specification states it
ClaimedTierPenalty(facts, level) ==
  IF level \in {"senior", "experienced_0_2"}
  THEN Pts(~HasTests(facts), 8) + Pts(~HasDockerfile(facts), 5)
       + Pts(~HasCi(facts), 3) + Pts(ReadmeQuality(facts) < 7, 4)
  ELSE IF level \in {"3rd_year", "4th_year"}
  THEN Pts(~HasTests(facts), 5) + Pts(~HasDockerfile(facts), 3)
       + Pts(ReadmeQuality(facts) < 5, 3)
  ELSE Pts(~ReadmeExists(facts), 2)

\* the penalties a returned call reports
PenaltiesOf(res) ==
  IF op = "evaluate" THEN res.score_breakdown.penalties ELSE res.penalties_applied

\* the challenge-specific part of those penalties
ChallengePartOf(facts, challenge, level) ==
  IF op = "evaluate" THEN calculate_challenge_penalties(facts, challenge, level)
  ELSE app_calculate_challenge_penalties(facts, challenge, level)

\* C22: in both engines the penalty without its challenge-specific part is,
\* for senior and experienced_0_2, 8 if no tests + 5 if no Dockerfile + 3 if
\* no CI + 4 if README quality < 7; for 3rd_year and 4th_year, 5 if no tests
\* + 3 if no Dockerfile + 3 if README quality < 5; for 1st_year, 2nd_year
\* and fresher, 2 if the README is missing and 0 otherwise
C22_TierPenaltyTable ==
  (pc = "returned" /\ op \in {"evaluate", "adjust"} /\ experience_level \in TierSet) =>
    PenaltiesOf(result) - ChallengePartOf(code_analysis, challenge_id, experience_level)
      = ClaimedTierPenalty(code_analysis, experience_level)

\* the challenge-defining indicator of a challenge, read from the facts
HasIndicator(facts, challenge) ==
  LET challenge_specific == Get(facts, "challenge_specific", EmptyDict)
  IN  IF challenge \in {"challenge_023", "challenge_024"} THEN HasAiMl(facts)
      ELSE IF challenge = "challenge_025"
      THEN Get(Get(challenge_specific, "data_pipeline_indicators", EmptyDict),
               "has_data_pipeline", FALSE)
      ELSE Get(Get(challenge_specific, "web_app_indicators", EmptyDict),
               "has_web_app", FALSE)

\* junior 1, 3rd/4th year 2, senior/experienced 3
TierGroup(level) ==
  IF level \in {"senior", "experienced_0_2"} THEN 3
  ELSE IF level \in {"3rd_year", "4th_year"} THEN 2
  ELSE 1

\* what the engine called in this state adds to the penalties for the
\* challenge: its penalties less its penalties under a challenge identifier
\* that has no challenge-specific rule
ChallengePenalty(facts, challenge, level) ==
  IF op = "evaluate"
  THEN calculate_penalties(facts, level, challenge)
         - calculate_penalties(facts, level, "challenge_999")
  ELSE app_calculate_penalties(facts, level, challenge)
         - app_calculate_penalties(facts, level, "challenge_999")

ReportsPenalties ==
  /\ pc = "returned"
  /\ op \in {"evaluate", "adjust"}
  /\ PenaltiesOf(result) =
       IF op = "evaluate"
       THEN calculate_penalties(code_analysis, experience_level, challenge_id)
       ELSE app_calculate_penalties(code_analysis, experience_level, challenge_id)

\* C23 as stated: for challenge_023 .. challenge_027, when the
\* challenge-defining indicator is absent a positive challenge-specific
\* penalty is added, larger for a higher tier group; when it is present the
\* challenge-specific penalty is 0
C23_EveryChallengePenalised ==
  (/\ pc = "returned" /\ op \in {"evaluate", "adjust"}
   /\ experience_level \in TierSet
   /\ challenge_id \in ChallengeIds \ {"challenge_999"}) =>
    LET cp == ChallengePenalty(code_analysis, challenge_id, experience_level)
    IN  /\ ReportsPenalties
        /\ IF HasIndicator(code_analysis, challenge_id)
           THEN cp = 0
           ELSE /\ cp > 0
                /\ \A l \in TierSet :
                     TierGroup(l) > TierGroup(experience_level) =>
                       ChallengePenalty(code_analysis, challenge_id, l) > cp

\* C23: in both engines only challenge_023 and challenge_024 carry a
\* challenge-specific penalty, added on top of the tier penalty when the
\* facts show no AI/ML: 3, 7, 10 (junior, 3rd/4th year, senior/experienced)
\* for challenge_023 and 0, 5, 8 for challenge_024, so never smaller for a
\* higher tier group; it is 0 when AI/ML is present, and 0 for every other
\* challenge identifier whatever the indicators
C23_AiChallengesPenalised ==
  (pc = "returned" /\ op \in {"evaluate", "adjust"}) =>
    LET cp == ChallengePenalty(code_analysis, challenge_id, experience_level)
        g  == TierGroup(experience_level)
    IN  /\ ReportsPenalties
        /\ cp = IF HasAiMl(code_analysis) THEN 0
                ELSE IF challenge_id = "challenge_023" THEN <<3, 7, 10>>[g]
                ELSE IF challenge_id = "challenge_024" THEN <<0, 5, 8>>[g]
                ELSE 0
        /\ \A l \in TierSet :
             TierGroup(l) > g =>
               /\ ChallengePenalty(code_analysis, challenge_id, l) >= cp
               /\ (challenge_id \in {"challenge_023", "challenge_024"}
                   /\ ~HasAiMl(code_analysis)) =>
                    ChallengePenalty(code_analysis, challenge_id, l) > cp

\* a 3rd/4th-year evaluation for challenge_024 of facts without AI/ML
C23_Witness ==
  /\ Returned("evaluate")
  /\ challenge_id = "challenge_024"
  /\ experience_level \in {"3rd_year", "4th_year"}
  /\ ~HasAiMl(code_analysis)
  /\ ChallengePenalty(code_analysis, challenge_id, experience_level) = 5
  /\ result.score_breakdown.penalties >= 5

\* the reward as the specification states it
ClaimedReward(facts, level) ==
  LET key_dirs == Get(Get(facts, "structure", EmptyDict), "key_directories", EmptyDict)
  IN  (IF level \in {"1st_year", "2nd_year", "fresher"}
       THEN Pts(HasTests(facts), 3) + Pts(HasDockerfile(facts), 2) + Pts(HasCi(facts), 2)
       ELSE 0)
      + Pts(ReadmeQuality(facts) >= 8, 2)
      + (IF level \in {"3rd_year", "4th_year"}
         THEN Pts(Get(key_dirs, "src", FALSE) /\ Get(key_dirs, "tests", FALSE), 2)
         ELSE 0)

\* the rewards a returned call reports
RewardsOf(res) ==
  IF op = "evaluate" THEN res.score_breakdown.rewards ELSE res.rewards_applied

\* C24: in both engines the reward is the sum of +3 if tests exist, +2 if a
\* Dockerfile exists and +2 if CI exists for 1st_year, 2nd_year and fresher;
\* +2 if README quality >= 8 for any tier; and +2 for a src and a tests
\* directory for 3rd_year and 4th_year and for no other tier
C24_RewardTable ==
  (pc = "returned" /\ op \in {"evaluate", "adjust"} /\ experience_level \in TierSet) =>
    RewardsOf(result) = ClaimedReward(code_analysis, experience_level)

\* positions of the steps named `name` in the adjustment details
StepsNamed(details, name) == { i \in DOMAIN details : details[i].step = name }

\* C25: the audit trail of every evaluation lists its steps in pipeline
\* order: the multiplier step is always present and first; a penalty step is
\* present exactly when penalties > 0, once, right after the multiplier step;
\* a reward step is present exactly when rewards > 0, once, and last; the
\* values of those steps are breakdown.penalties (shown negative) and
\* breakdown.rewards; and the displayed calculation steps start with the raw
\* score, list the details in the same order and end with the final score
C25_AuditTrailInPipelineOrder ==
  Returned("evaluate") =>
    LET b == result.score_breakdown
        d == b.adjustment_details
        s == result.calculation_steps
    IN  /\ Len(d) = 1 + Pts(b.penalties > 0, 1) + Pts(b.rewards > 0, 1)
        /\ StepsNamed(d, "Experience Multiplier") = {1}
        /\ d[1].value = b.multiplier_applied
        /\ StepsNamed(d, "Experience Penalties") = IF b.penalties > 0 THEN {2} ELSE {}
        /\ \A i \in StepsNamed(d, "Experience Penalties") : d[i].value = 0 - b.penalties
        /\ StepsNamed(d, "Experience Rewards") = IF b.rewards > 0 THEN {Len(d)} ELSE {}
        /\ \A i \in StepsNamed(d, "Experience Rewards") : d[i].value = b.rewards
        /\ Len(s) = 2 + 2 * Len(d)
        /\ s[1].step = "Raw Technical Score"
        /\ s[1].value * Scale = result.raw_technical_score
        /\ \A i \in DOMAIN d :
             /\ s[2 * i].step = d[i].step
             /\ s[2 * i].value = d[i].value
             /\ s[2 * i + 1].line = "->"
        /\ s[Len(s)].step = "Final Adjusted Score"
        /\ s[Len(s)].value = result.final_adjusted_score

\* an evaluation with penalties and rewards: three steps, in order
C25_Witness ==
  /\ Returned("evaluate")
  /\ result.score_breakdown.penalties > 0
  /\ result.score_breakdown.rewards > 0
  /\ Len(result.score_breakdown.adjustment_details) = 3
  /\ result.score_breakdown.adjustment_details[2].step = "Experience Penalties"
  /\ result.score_breakdown.adjustment_details[3].step = "Experience Rewards"
  /\ Len(result.calculation_steps) = 8

\* C26: facts aggregation is order-independent: two scans of the same
\* repository, whatever the order in which the file system enumerates its
\* files, report the same python_metrics (function count, class count, import
\* list, type-hint and docstring flags) and the same AI/ML indicators, also
\* when the repository holds more Python files than the sample caps
C26_ScanOrderIndependent ==
  (/\ op = "analyze_deep" /\ pc = "returned" /\ seen # NoCall
   /\ seen.repo = repo) =>
    /\ result.code_quality.python_metrics = seen.result.code_quality.python_metrics
    /\ result.challenge_specific.ai_ml_indicators =
         seen.result.challenge_specific.ai_ml_indicators

\* C27: EvaluationEngine.evaluate returns a complete result for every
\* challenge id (challenge_023 to challenge_027 and any unrecognised id) and
\* never fails: each category score is at most its stated maximum,
\* total_score is at most 100, bonus_score is at most 15 and final_score is
\* total_score plus bonus_score.
C27_EngineResultComplete ==
  (op = "engine_evaluate" /\ pc # "call") =>
    /\ pc = "returned"
    /\ \A i \in DOMAIN result.score_breakdown :
         result.score_breakdown[i].score <= result.score_breakdown[i].max
    /\ result.total_score <= 100
    /\ result.bonus_score <= 15
    /\ result.final_score = result.total_score + result.bonus_score

\* the evaluator's adjustment of the arguments the app engine was called with
EvaluatorAdjustment ==
  apply_experience_adjustments(raw_input, ExpConfig(experience_benchmarks, experience_level),
                               experience_level, code_analysis, challenge_id)

\* C28: the two implementations of the experience adjustment agree: for every
\* raw score in 0..100, each of the seven tiers, every challenge id and every
\* facts record, adjust_score_for_experience (app) and
\* _apply_experience_adjustments (evaluator) compute the same multiplier, the
\* same penalties, the same rewards and the same final score.
C28_EnginesAgree ==
  (/\ Returned("adjust") /\ experience_level \in TierSet
   /\ raw_input >= 0 /\ raw_input <= 100) =>
    /\ result.multiplier_applied = EvaluatorAdjustment.multiplier_applied
    /\ result.penalties_applied = EvaluatorAdjustment.penalties
    /\ result.rewards_applied = EvaluatorAdjustment.rewards
    /\ result.final_score = EvaluatorAdjustment.final_score

\* recommendation texts that say to recommend hiring
RecommendsHiring ==
  {"Good candidate - Recommend hiring",
   "Exceptional candidate - Strongly recommend hiring"}

\* recommendation texts "Below average" and "Not suitable"
AdvisesAgainst ==
  {"Below average - Consider for junior position or internship",
   "Not suitable - Needs significant improvement"}

\* C29: the recommendation text is consistent with the hiring decision of
\* the same evaluation, for every tier and every final score: a
\* recommendation to hire comes only with the decision Hire or Strong Hire,
\* and the decision Reject only with "Below average" or "Not suitable".
C29_RecommendationMatchesDecision ==
  (Returned("decide") \/ Returned("evaluate")) =>
    /\ result.recommendation \in RecommendsHiring =>
         result.hiring_decision \in {"Hire", "Strong Hire"}
    /\ result.hiring_decision = "Reject" =>
         result.recommendation \in AdvisesAgainst

\* the expected features: (section, flag) of the facts record
ExpectedFeatures ==
  {<<"testing", "has_tests">>, <<"docker", "has_dockerfile">>, <<"ci_cd", "has_ci">>}

\* the expected features a facts record reads as false
MissingFeatures(facts) ==
  {f \in ExpectedFeatures : ~Get(Get(facts, f[1], EmptyDict), f[2], FALSE)}

\* the facts record changed only by turning feature f to true
WithFeature(facts, f) ==
  LET section == Get(facts, f[1], EmptyDict)
      gained == [k \in DOMAIN section \cup {f[2]} |->
                   IF k = f[2] THEN TRUE ELSE section[k]]
  IN [s \in DOMAIN facts \cup {f[1]} |-> IF s = f[1] THEN gained ELSE facts[s]]

\* C30: gaining an expected feature never lowers the result: for every tier
\* and challenge, changing the facts only by turning has_tests,
\* has_dockerfile or has_ci from false to true never decreases the raw score
\* and never decreases the final score.
C30_FeatureNeverLowersScore ==
  Returned("evaluate") =>
    \A f \in MissingFeatures(code_analysis) :
      LET gained == evaluation_breakdown(experience_benchmarks,
                      WithFeature(code_analysis, f), experience_level, challenge_id)
      IN /\ gained.raw_score >= result.score_breakdown.raw_score
         /\ gained.final_score >= result.score_breakdown.final_score

\* an evaluation of facts that lack every expected feature, where gaining
\* any one of them raises the final score
C30_Witness ==
  /\ Returned("evaluate")
  /\ MissingFeatures(code_analysis) = ExpectedFeatures
  /\ \A f \in ExpectedFeatures :
       evaluation_breakdown(experience_benchmarks, WithFeature(code_analysis, f),
                            experience_level, challenge_id).final_score
         > result.score_breakdown.final_score

====
